---------------------------- MODULE Spec2Model ----------------------------
(***************************************************************************)
(* A model of the SpiBeam command path: the Spiwrite wire protocol         *)
(* (Header / Frame / DecodeFrame / FrameHandler), the message handler of   *)
(* SpitermRunner and the command engine SpiwriteCommand.                   *)
(*                                                                         *)
(* Conventions.                                                            *)
(*  - A byte is a number in 0..255; a buffer is a sequence of bytes.       *)
(*  - A uint32_t VALUE is a sequence of four bytes, most significant       *)
(*    first (TLC's integers are 32-bit signed, so 0xFFFFFFF8 is not an     *)
(*    integer of the model).  The bytes a value occupies in MEMORY depend  *)
(*    on the host byte order (HostStore / HostLoad).                       *)
(*  - hostLE and sizeBits are properties of the build: the byte order of   *)
(*    the host and the width of size_t.                                    *)
(***************************************************************************)
EXTENDS Integers, Sequences, FiniteSets, TLC

VARIABLES
    hostLE,        \* build: TRUE on a little-endian host
    sizeBits,      \* build: width of size_t, 32 or 64
    dfIn,          \* DecodeFrame harness: the buffer handed to DecodeFrame
    dfOut,         \* DecodeFrame harness: what the call produced
    dfCopy,        \* DecodeFrame harness: Frame::DeepCopy of the decoded frame
    sequence_,     \* FrameHandler::sequence_
    rxPacket,      \* the byte run of the last OnReceive call
    rxLeft,        \* bytes the call before it left undecoded when DecodeFrame threw
    rxOutcome,     \* how the last OnReceive call ended
    rxCalls,       \* OnReceive calls made so far
    processed,     \* OnReceive's local `processed` when the call ended
    rxPasses,      \* the value of `processed` at the start of each pass of the
                   \* loop of the last OnReceive call, in order
    sent,          \* buffers handed to on_send_ during the last OnReceive call
    events,        \* hooks invoked during the last OnReceive call, in order
    sentLines,     \* sequence fields of all LINES frames sent so far, in order
    byte_queues,   \* the global byte_queues: bus id -> deque of bytes
    count,         \* the global `count`
    hwLog,         \* register accesses issued by the last engine operation
    pushed,        \* device commands queued by the last parse_binary_commands
    engCall,       \* the last engine operation: [op, arg]
    engResult,     \* how it ended: [status, message, responses]
    wr,            \* the MemoryWriter: [mem_fd, mapped_base, mapped_address, mapped_size]
    wrCall,        \* the last call on the MemoryWriter: [op, addr, size]
    wrResult,      \* how it ended: [status, ret, access]; ret is what the call
                   \* returns when it returns (status "ok")
    donePc,        \* where the thread that runs the text command done stands
    sendStatus,    \* the hardware's send-status register at 0x43c00014
    polled,        \* done's polls of it: the last one, [ok, value], and their
                   \* number n, counted up to MaxPolls
    thr,           \* threads calling one MemoryWriter: thread -> [pc, op, addr]
    write_mutex,   \* MemoryWriter::write_mutex: the thread holding it, or 0
    inst,          \* SpiwriteCommand instances, each inside parse_binary_commands
                   \* on a thread of its own: instance -> its locals and position
    zCall,         \* the buffer handed to decompress_zlib_verbose
    zResult,       \* how the call ended: [status, data, what, inflateCalls]
    phaseIn,       \* one array element: the pointing globals, the steering
                   \* phase of its position, its poles and the mode is_tx
    phaseOut,      \* what Run made of it: [pc, calculated_phase, final_phase,
                   \* int_phase, value]
    run,           \* one parse_binary_commands call followed pass by pass
    appended,      \* bus -> every byte pushed to its queue so far, in order
    written,       \* bus -> the bytes of every word written to its FIFO data
                   \* register so far, in order
    steer          \* one steering request of ConsoleRunner's Run followed entry
                   \* by entry: its position, its locals and its accesses

buildVars  == <<hostLE, sizeBits>>
decodeVars == <<dfIn, dfOut, dfCopy>>
wireVars   == <<sequence_, rxPacket, rxLeft, rxOutcome, rxCalls, processed, rxPasses, sent,
               events, sentLines>>
engineVars == <<byte_queues, count, hwLog, pushed, engCall, engResult>>
memVars    == <<wr, wrCall, wrResult>>
doneVars   == <<donePc, sendStatus, polled>>
lockVars   == <<thr, write_mutex>>
parVars    == <<inst>>
zlibVars   == <<zCall, zResult>>
phaseVars  == <<phaseIn, phaseOut>>
stepVars   == <<run, appended, written>>
steerVars  == <<steer>>
vars       == <<hostLE, sizeBits, dfIn, dfOut, dfCopy, sequence_, rxPacket, rxLeft,
                rxOutcome, rxCalls, processed, rxPasses, sent, events, sentLines, byte_queues,
                count,
                hwLog, pushed, engCall, engResult, wr, wrCall, wrResult, donePc,
                sendStatus, polled, thr, write_mutex, inst, zCall, zResult, phaseIn,
                phaseOut, run, appended, written, steer>>

---------------------------------------------------------------------------
(* Bytes and words *)

Reverse(s) == [i \in 1..Len(s) |-> s[Len(s) + 1 - i]]

\* The low 24 bits of a uint32_t value, as an integer.
Low24(v) == v[2] * 65536 + v[3] * 256 + v[4]

\* A small non-negative integer as a uint32_t value.
U32(n) == <<0, (n \div 65536) % 256, (n \div 256) % 256, n % 256>>

\* ntohl / htonl: a byte swap on a little-endian host, the identity otherwise.
ntohl(v, le) == IF le THEN Reverse(v) ELSE v

htonl(v, le) == IF le THEN Reverse(v) ELSE v

\* Reading a uint32_t from four bytes of memory, and writing one (memcpy).
HostLoad(m, le) == IF le THEN Reverse(m) ELSE m

HostStore(v, le) == IF le THEN Reverse(v) ELSE v

---------------------------------------------------------------------------
(* SpiwriteProtocol.h: the protocol constants, Header and Frame *)

MSG_STRAT_CODE == <<16, 119, 225, 16>>      \* 0x1077E110

MSG_ACK == <<0, 0, 0, 1>>

MSG_LINES == <<0, 0, 0, 2>>

\* sizeof(Header): four packed uint32_t.
HEADER_SIZE == 16

\* Header::FromNetwork: the raw bytes seen as a Header, each field through ntohl.
FromNetwork(raw, le) ==
    [start          |-> ntohl(HostLoad(SubSeq(raw, 1, 4), le), le),
     sequence       |-> ntohl(HostLoad(SubSeq(raw, 5, 8), le), le),
     message_type   |-> ntohl(HostLoad(SubSeq(raw, 9, 12), le), le),
     message_length |-> ntohl(HostLoad(SubSeq(raw, 13, 16), le), le)]

\* A ToNetwork that leaves the fields in host order.
ToNetworkNoSwap(h, le) == h

\* Header::ToNetwork: each field through htonl.
ToNetwork(h, le) ==
    [start          |-> htonl(h.start, le),
     sequence       |-> htonl(h.sequence, le),
     message_type   |-> htonl(h.message_type, le),
     message_length |-> htonl(h.message_length, le)]

\* Frame::Length
Length(f) == HEADER_SIZE + Len(f.message)

\* Frame::DeepCopy: memcpy of the Header as it lies in memory, then the payload.
DeepCopy(f, le) ==
    HostStore(f.head.start, le) \o HostStore(f.head.sequence, le)
        \o HostStore(f.head.message_type, le)
        \o HostStore(f.head.message_length, le) \o f.message

NoHead == [start |-> <<>>, sequence |-> <<>>, message_type |-> <<>>, message_length |-> <<>>]

NoFrame == [head |-> NoHead, message |-> <<>>]

---------------------------------------------------------------------------
(* SpiwriteProtocol.cpp: DecodeFrame *)

\* sizeof(head) + head.message_length, computed in size_t: modulo 2^32 when
\* size_t is 32 bits wide, exact when it is 64 bits wide.  The result is
\* hi * 2^24 + lo.
HeaderPlusLength(ml, bits) ==
    LET s  == Low24(ml) + HEADER_SIZE
        hi == ml[1] + (s \div 16777216)
    IN  [hi |-> IF bits = 32 THEN hi % 256 ELSE hi, lo |-> s % 16777216]

\* `size > len` for an int len with 0 <= len < 2^24 converted to size_t.
SizeGreater(sz, len) == sz.hi > 0 \/ sz.lo > len

\* Lines 16-28 of DecodeFrame: the header is there; the declared length is
\* checked against len and the payload copied.
DecodeComplete(frame, len, le, bits, head) ==
    IF SizeGreater(HeaderPlusLength(head.message_length, bits), len)
    THEN [status |-> "short", frame |-> [head |-> head, message |-> <<>>]]
    ELSE IF head.message_length[1] > 0 \/ Low24(head.message_length) > len - HEADER_SIZE
    THEN [status |-> "ub", frame |-> [head |-> head, message |-> <<>>]]
    ELSE [status |-> "ok",
          frame  |-> [head    |-> head,
                      message |-> SubSeq(frame, HEADER_SIZE + 1,
                                         HEADER_SIZE + Low24(head.message_length))]]

\* A DecodeFrame without the check of len against the header size: what lies
\* past the received bytes reads as zero.
DecodeFrameNoReadyCheck(frame, len, le, bits) ==
    DecodeComplete(frame, IF len < HEADER_SIZE THEN HEADER_SIZE ELSE len, le, bits,
                   FromNetwork(SubSeq(frame \o [i \in 1..HEADER_SIZE |-> 0], 1, HEADER_SIZE),
                               le))

\* DecodeFrame(frame, len).  status is
\*   "not_ready"  logic_error("Frame is not ready yet!")
\*   "short"      logic_error("%d recevied but %d needed")
\*   "ok"         a Frame is returned
\*   "ub"         the length check passed although message_length bytes do not
\*                follow the header: std::vector(msg, msg + message_length)
\*                reads outside the buffer (undefined behaviour).
DecodeFrame(frame, len, le, bits) ==
    IF len < HEADER_SIZE
    THEN [status |-> "not_ready", frame |-> NoFrame]
    ELSE DecodeComplete(frame, len, le, bits,
                        FromNetwork(SubSeq(frame, 1, HEADER_SIZE), le))

\* What a build can do where the code's behaviour is undefined and no value
\* is produced: an exception out of the library, or the process dies.
UBOutcomes == {"exception", "crash"}

---------------------------------------------------------------------------
(* Text of the program, as character codes *)

\* 'BINARY:'
TxtBinaryPrefix ==
    <<66, 73, 78, 65, 82, 89, 58>>

\* 'start'
TxtStart ==
    <<115, 116, 97, 114, 116>>

\* 'done'
TxtDone ==
    <<100, 111, 110, 101>>

\* 'sch_VAIC> '
TxtPrompt ==
    <<115, 99, 104, 95, 86, 65, 73, 67, 62, 32>>

\* 'CR LF'
TxtCRLF ==
    <<13, 10>>

\* 'Error : '
TxtErrorPrefix ==
    <<69, 114, 114, 111, 114, 32, 58, 32>>

\* 'stat init completed !!!'
MsgStartDone ==
    <<115, 116, 97, 116, 32, 105, 110, 105, 116, 32, 99, 111, 109, 112,
      108, 101, 116, 101, 100, 32, 33, 33, 33>>

\* 'done complete'
MsgDoneComplete ==
    <<100, 111, 110, 101, 32, 99, 111, 109, 112, 108, 101, 116, 101>>

\* 'what?'
MsgWhat ==
    <<119, 104, 97, 116, 63>>

\* '001'
Msg001 ==
    <<48, 48, 49>>

\* 'No binary data found'
MsgNoBinary ==
    <<78, 111, 32, 98, 105, 110, 97, 114, 121, 32, 100, 97, 116, 97, 32,
      102, 111, 117, 110, 100>>

\* 'Invalid zlib data: too short'
MsgZlibShort ==
    <<73, 110, 118, 97, 108, 105, 100, 32, 122, 108, 105, 98, 32, 100, 97,
      116, 97, 58, 32, 116, 111, 111, 32, 115, 104, 111, 114, 116>>

\* 'Invalid zlib compression method'
MsgZlibMethod ==
    <<73, 110, 118, 97, 108, 105, 100, 32, 122, 108, 105, 98, 32, 99, 111,
      109, 112, 114, 101, 115, 115, 105, 111, 110, 32, 109, 101, 116, 104,
      111, 100>>

\* 'Invalid zlib header checksum'
MsgZlibChecksum ==
    <<73, 110, 118, 97, 108, 105, 100, 32, 122, 108, 105, 98, 32, 104, 101,
      97, 100, 101, 114, 32, 99, 104, 101, 99, 107, 115, 117, 109>>

\* 'Decompression error: '
MsgDecompressionError ==
    <<68, 101, 99, 111, 109, 112, 114, 101, 115, 115, 105, 111, 110, 32,
      101, 114, 114, 111, 114, 58, 32>>

\* 'Decompression failed at chunk 1: data error (corrupt data)'
WhatDataError ==
    <<68, 101, 99, 111, 109, 112, 114, 101, 115, 115, 105, 111, 110, 32,
      102, 97, 105, 108, 101, 100, 32, 97, 116, 32, 99, 104, 117, 110, 107,
      32, 49, 58, 32, 100, 97, 116, 97, 32, 101, 114, 114, 111, 114, 32,
      40, 99, 111, 114, 114, 117, 112, 116, 32, 100, 97, 116, 97, 41>>

\* 'Invalid zlib header'
WhatInvalidHeader ==
    <<73, 110, 118, 97, 108, 105, 100, 32, 122, 108, 105, 98, 32, 104, 101,
      97, 100, 101, 114>>

\* 'zlib initialization failed: -4'
WhatInitFailed ==
    <<122, 108, 105, 98, 32, 105, 110, 105, 116, 105, 97, 108, 105, 122,
      97, 116, 105, 111, 110, 32, 102, 97, 105, 108, 101, 100, 58, 32, 45,
      52>>

\* 'Decompression failed at chunk '
WhatFailedAtChunk ==
    <<68, 101, 99, 111, 109, 112, 114, 101, 115, 115, 105, 111, 110, 32,
      102, 97, 105, 108, 101, 100, 32, 97, 116, 32, 99, 104, 117, 110, 107,
      32>>

\* 'stream error'
WhatStreamError ==
    <<115, 116, 114, 101, 97, 109, 32, 101, 114, 114, 111, 114>>

\* 'data error (corrupt data)'
WhatCorruptData ==
    <<100, 97, 116, 97, 32, 101, 114, 114, 111, 114, 32, 40, 99, 111, 114,
      114, 117, 112, 116, 32, 100, 97, 116, 97, 41>>

\* 'memory error'
WhatMemoryError ==
    <<109, 101, 109, 111, 114, 121, 32, 101, 114, 114, 111, 114>>

\* 'Decompression incomplete: '
WhatIncomplete ==
    <<68, 101, 99, 111, 109, 112, 114, 101, 115, 115, 105, 111, 110, 32,
      105, 110, 99, 111, 109, 112, 108, 101, 116, 101, 58, 32>>

---------------------------------------------------------------------------
(* SpiwriteCommand.cpp: MemoryWriter *)

\* sysconf(_SC_PAGESIZE) of the target (lines 41 and 158).
PAGE_SIZE == 4096

\* uintptr_t and size_t values are tuples of bits / 8 bytes, the most
\* significant first: `bits` is the width of both types on the build.
Word(n, bits) ==
    [i \in 1..(bits \div 8 - 4) |-> 0]
    \o <<(n \div 16777216) % 256, (n \div 65536) % 256, (n \div 256) % 256, n % 256>>

\* 2^bits - n for a small n > 0: what 0 - n is in unsigned arithmetic.
WordNeg(n, bits) == [i \in 1..(bits \div 8) |-> IF i = bits \div 8 THEN 256 - n ELSE 255]

RECURSIVE AddFrom(_, _, _, _)
AddFrom(a, b, i, carry) ==
    IF i = 0 THEN a
    ELSE AddFrom([a EXCEPT ![i] = (a[i] + b[i] + carry) % 256], b, i - 1,
                 (a[i] + b[i] + carry) \div 256)

\* a + b in unsigned arithmetic of the width of a and b: the carry out of the
\* top byte is lost.
WordAdd(a, b) == AddFrom(a, b, Len(a), 0)

WordLess(a, b) ==
    \E i \in 1..Len(a) : a[i] < b[i] /\ \A j \in 1..(i - 1) : a[j] = b[j]

\* a + b as a mathematical integer: one byte wider, nothing lost.
WideAdd(a, b) == WordAdd(<<0>> \o a, <<0>> \o b)

\* addr & ~(page_size - 1) and addr - page_base (lines 42-43, 159).
PageBase(a) == [a EXCEPT ![Len(a)] = 0, ![Len(a) - 1] = (@ \div 16) * 16]

PageOffset(a) == (a[Len(a) - 1] % 16) * 256 + a[Len(a)]

\* Line 160: ((size + page_size - 1) / page_size) * page_size, in size_t.
RoundUpToPage(size) == PageBase(WordAdd(size, Word(PAGE_SIZE - 1, 8 * Len(size))))

\* target_address % sizeof(uint32_t) == 0
Aligned4(a) == a[Len(a)] % 4 = 0

NO_FD == 0 - 1

\* SpiwriteCommand.h:32-35: the members of a MemoryWriter as constructed.
NewWriter(bits) ==
    [mem_fd |-> NO_FD, mapped_base |-> "nullptr",
     mapped_address |-> Word(0, bits), mapped_size |-> Word(0, bits)]

\* Whether the four bytes at t lie in the window [mapped_address,
\* mapped_address + mapped_size), as integers.
InWindow(w, t) ==
    /\ ~WordLess(t, w.mapped_address)
    /\ ~WordLess(WideAdd(w.mapped_address, w.mapped_size),
                 WideAdd(t, Word(4, 8 * Len(t))))

\* Lines 190-191 and 222-223: the range check as the code computes it, both
\* sums in uintptr_t.
OutOfMappedRange(w, t) ==
    \/ WordLess(t, w.mapped_address)
    \/ WordLess(WordAdd(w.mapped_address, w.mapped_size),
                WordAdd(t, Word(4, 8 * Len(t))))

\* Lines 196-201 and 228-236: the access at mapped_base + (target_address -
\* mapped_address).  It reaches the register at t when mapped_base is the
\* mapping and t lies inside it; any other dereference is undefined behaviour
\* ("wild").
Dereference(w, t) ==
    IF w.mapped_base = "mapped" /\ InWindow(w, t) THEN "window" ELSE "wild"

Refused == [ret |-> FALSE, access |-> "none"]

\* MemoryWriter::initialize.  os tells whether open and mmap succeed; mmap
\* fails on a length of 0.
initialize(w, base_addr, size, os) ==
    IF ~os.open
    THEN [wr |-> [w EXCEPT !.mapped_size = RoundUpToPage(size), !.mem_fd = NO_FD],
          ret |-> FALSE]
    ELSE IF ~os.mmap \/ RoundUpToPage(size) = Word(0, 8 * Len(size))
    THEN [wr |-> [w EXCEPT !.mapped_size = RoundUpToPage(size), !.mem_fd = NO_FD,
                           !.mapped_base = "MAP_FAILED"],
          ret |-> FALSE]
    ELSE [wr |-> [mem_fd |-> 3, mapped_base |-> "mapped",
                  mapped_address |-> PageBase(base_addr),
                  mapped_size |-> RoundUpToPage(size)],
          ret |-> TRUE]

\* MemoryWriter::readMemory
readMemory(w, target_address) ==
    IF ~Aligned4(target_address) THEN Refused
    ELSE IF OutOfMappedRange(w, target_address) THEN Refused
    ELSE [ret |-> TRUE, access |-> Dereference(w, target_address)]

\* writeMemoryDirect: one page is mapped for the write and unmapped after it.
writeMemoryDirect(target_address, os) ==
    IF PageOffset(target_address) + 4 > PAGE_SIZE THEN Refused
    ELSE IF ~os.open THEN Refused
    ELSE IF ~os.mmap THEN Refused
    ELSE [ret |-> TRUE, access |-> "page"]

\* MemoryWriter::writeMemory
writeMemory(w, target_address, os) ==
    IF w.mem_fd = NO_FD \/ w.mapped_base = "nullptr"
    THEN writeMemoryDirect(target_address, os)
    ELSE IF ~Aligned4(target_address) THEN Refused
    ELSE IF OutOfMappedRange(w, target_address) THEN Refused
    ELSE [ret |-> TRUE, access |-> Dereference(w, target_address)]

---------------------------------------------------------------------------
(* SpiwriteCommand.cpp: the command engine *)

\* 0x43c40000: the register block of bus 0; bus b is at + b * 0x10000.
FIFO_ADDR == 1136918528

BUS_STRIDE == 65536

\* 0x43c00000: the shared control block.
BASE_ADDR == 1136656384

RegisterAddrs == <<39, 63, 71, 95>>          \* {0x27, 0x3F, 0x47, 0x5F}

Buses == 0..7

\* One wr.writeMemory / wr.readMemory call issued by the engine.
WriteAccess(addr, val) == [op |-> "w", addr |-> addr, val |-> val]

ReadAccess(addr) == [op |-> "r", addr |-> addr, val |-> <<>>]

\* DrainQueue writing one word at most.
DrainQueueOnce(q, base_address, log) ==
    IF Len(q) >= 4
    THEN [q |-> SubSeq(q, 5, Len(q)),
          log |-> Append(log, WriteAccess(base_address + 16, SubSeq(q, 1, 4)))]
    ELSE [q |-> q, log |-> log]

\* Lines 296-317: while the queue of the bus holds 4 bytes or more, pack the
\* front four big-endian into one word and write it to the FIFO data register.
RECURSIVE DrainQueue(_, _, _)
DrainQueue(q, base_address, log) ==
    IF Len(q) >= 4
    THEN DrainQueue(SubSeq(q, 5, Len(q)), base_address,
                    Append(log, WriteAccess(base_address + 16, SubSeq(q, 1, 4))))
    ELSE [q |-> q, log |-> log]

\* CloseBus reading the remaining-FIFO-size register first.
CloseBusSizeFirst(base_address, log) ==
    log \o << ReadAccess(base_address + 12),
              WriteAccess(base_address + 20, U32(640)),
              ReadAccess(base_address),
              WriteAccess(base_address, <<255, 255, 255, 255>>) >>

\* Lines 329-368: the bus-close sequence on the bus at base_address.
CloseBus(base_address, log) ==
    log \o << WriteAccess(base_address + 20, U32(640)),
              ReadAccess(base_address),
              WriteAccess(base_address, <<255, 255, 255, 255>>),
              ReadAccess(base_address + 12) >>

\* binary_data[i] for a 0-based i: past the end of the vector the read is
\* undefined behaviour and yields whatever byte `oob` lies there.
ByteAt(binary_data, i, oob) ==
    IF i < Len(binary_data) THEN binary_data[i + 1] ELSE oob

\* AdvanceCursors with the break of line 391 placed after the bus-open
\* sequence instead of before it.
AdvanceCursorsBreakAfterOpen(p, base) ==
    IF p.reg_idx + 1 < 4
    THEN [p EXCEPT !.reg_idx = @ + 1, !.offset = @ + 2]
    ELSE IF p.ucIcAddr + 1 <= 31
    THEN [p EXCEPT !.reg_idx = 0, !.ucIcAddr = @ + 1, !.offset = @ + 2]
    ELSE [p EXCEPT !.reg_idx = 0, !.ucIcAddr = 0, !.bus_id = @ + 1,
                   !.log = Append(CloseBus(base, @),
                                  WriteAccess(FIFO_ADDR + (p.bus_id + 1) * BUS_STRIDE + 44,
                                              U32(2))),
                   !.offset = @ + 2, !.stop = p.bus_id + 1 > 7]

\* AdvanceCursors opening the next bus before it closes the full one.
AdvanceCursorsOpenBeforeClose(p, base) ==
    IF p.reg_idx + 1 < 4
    THEN [p EXCEPT !.reg_idx = @ + 1, !.offset = @ + 2]
    ELSE IF p.ucIcAddr + 1 <= 31
    THEN [p EXCEPT !.reg_idx = 0, !.ucIcAddr = @ + 1, !.offset = @ + 2]
    ELSE IF p.bus_id + 1 > 7
    THEN [p EXCEPT !.reg_idx = 0, !.ucIcAddr = 0, !.log = CloseBus(base, @),
                   !.bus_id = @ + 1, !.stop = TRUE]
    ELSE [p EXCEPT !.reg_idx = 0, !.ucIcAddr = 0, !.bus_id = @ + 1,
                   !.log = CloseBus(base,
                                    Append(@, WriteAccess(FIFO_ADDR + (p.bus_id + 1) * BUS_STRIDE
                                                          + 44, U32(2)))),
                   !.offset = @ + 2]

\* Lines 319-408: the cursors after one command; the bus-close and bus-open
\* sequences when the bus is full.  p is the parser state after the command's
\* bytes were queued and the queue drained.
AdvanceCursors(p, base) ==
    IF p.reg_idx + 1 < 4
    THEN [p EXCEPT !.reg_idx = @ + 1, !.offset = @ + 2]
    ELSE IF p.ucIcAddr + 1 <= 31
    THEN [p EXCEPT !.reg_idx = 0, !.ucIcAddr = @ + 1, !.offset = @ + 2]
    ELSE IF p.bus_id + 1 > 7
    THEN [p EXCEPT !.reg_idx = 0, !.ucIcAddr = 0, !.log = CloseBus(base, @),
                   !.bus_id = @ + 1, !.stop = TRUE]
    ELSE [p EXCEPT !.reg_idx = 0, !.ucIcAddr = 0, !.bus_id = @ + 1,
                   !.log = Append(CloseBus(base, @),
                                  WriteAccess(FIFO_ADDR + (p.bus_id + 1) * BUS_STRIDE + 44,
                                              U32(2))),
                   !.offset = @ + 2]

\* Lines 287-317: the five bytes of one command go to the queue of the bus,
\* and the queue is drained.
QueueCommand(ps, cmd, dr) ==
    [ps EXCEPT !.queues[ps.bus_id] = dr.q, !.log = dr.log,
               !.pushed = Append(@, [bus |-> ps.bus_id, bytes |-> cmd])]

\* BuildCommand with the two bytes of the value exchanged.
BuildCommandLowHigh(ps, hi, lo) == <<40, ps.ucIcAddr, RegisterAddrs[ps.reg_idx + 1], lo, hi>>

BuildCommand(ps, hi, lo) == <<40, ps.ucIcAddr, RegisterAddrs[ps.reg_idx + 1], hi, lo>>

\* QueueCommand placing the command in front of the bytes the queue held.
QueueAndDrainInFront(ps, cmd, base) ==
    QueueCommand(ps, cmd, DrainQueue(cmd \o ps.queues[ps.bus_id], base, ps.log))

QueueAndDrain(ps, cmd, base) ==
    QueueCommand(ps, cmd, DrainQueue(ps.queues[ps.bus_id] \o cmd, base, ps.log))

\* One iteration of the while loop of parse_binary_commands (lines 280-408).
ParseStepAt(binary_data, ps, oob, base) ==
    AdvanceCursors(
        QueueAndDrain(ps,
                      BuildCommand(ps, ByteAt(binary_data, ps.offset, oob),
                                       ByteAt(binary_data, ps.offset + 1, oob)),
                      base),
        base)

\* ParseStep with the register blocks of the buses 0x100000 apart.
ParseStepWideStride(binary_data, ps, oob) ==
    ParseStepAt(binary_data, ps, oob, FIFO_ADDR + ps.bus_id * 16 * BUS_STRIDE)

ParseStep(binary_data, ps, oob) ==
    ParseStepAt(binary_data, ps, oob, FIFO_ADDR + ps.bus_id * BUS_STRIDE)

\* The while loop of line 280 at its condition: one more pass, or none once
\* the loop has ended (the break of line 391, or no two bytes left).
ParseIter(binary_data, ps, oob) ==
    IF ps.stop \/ ~(ps.offset + 1 <= Len(binary_data))
    THEN ps
    ELSE ParseStep(binary_data, ps, oob)

\* n times ParseIter: the first half of the passes, then the second half on
\* the parser state the first half leaves.
RECURSIVE ParseRun(_, _, _, _)
ParseRun(binary_data, ps, oob, n) ==
    IF n = 0 THEN ps
    ELSE IF n = 1 THEN ParseIter(binary_data, ps, oob)
    ELSE CHOOSE last \in { ParseRun(binary_data, mid, oob, n - n \div 2) :
                              mid \in {ParseRun(binary_data, ps, oob, n \div 2)} } : TRUE

\* The whole loop: it makes no more passes than the buffer has byte pairs.
ParseLoop(binary_data, ps, oob) ==
    ParseRun(binary_data, ps, oob, Len(binary_data) \div 2)

\* The offset of the first value parse_binary_commands reads (line 266).
FirstOffset == 3

\* The parser's locals at entry (lines 264-277).
ParserAtEntry(eng) ==
    [offset |-> FirstOffset, bus_id |-> 0, ucIcAddr |-> 0, reg_idx |-> 0,
     queues |-> eng.queues, log |-> eng.log, pushed |-> eng.pushed, stop |-> FALSE]

ParserResult(eng, ps) ==
    [eng EXCEPT !.queues = ps.queues, !.log = ps.log, !.pushed = ps.pushed,
                !.message = Msg001]

\* The engine state with the call fn(arg) added to the calls made inside the
\* operation.
Called(eng, fn, arg) == [eng EXCEPT !.calls = Append(@, [fn |-> fn, arg |-> arg])]

\* SpiwriteCommand::parse_binary_commands on the engine state `eng`.
parse_binary_commands(binary_data, eng, oob) ==
    ParserResult(Called(eng, "parse_binary_commands", binary_data),
                 ParseLoop(binary_data, ParserAtEntry(eng), oob))

---------------------------------------------------------------------------
(* SpiwriteCommand.cpp: the decompression helper *)

\* What zlib answers during one decompression: init is what inflateInit2
\* returns, chunks what the successive inflate calls do: ret the value
\* returned, more whether input is left (strm.avail_in > 0), out the bytes
\* written.  The answer to the last call listed is the answer to every call
\* after it.

\* validate_zlib_header passing a header that passes one of its two tests.
validate_zlib_header_either(data) ==
    IF Len(data) < 2 THEN FALSE
    ELSE data[1] % 16 = 8 \/ ((data[1] * 256 + data[2]) % 65536) % 31 = 0

\* validate_zlib_header
validate_zlib_header(data) ==
    IF Len(data) < 2 THEN FALSE
    ELSE IF data[1] % 16 # 8 THEN FALSE
    ELSE ((data[1] * 256 + data[2]) % 65536) % 31 = 0

\* How decompress_zlib_verbose ends: it returns `data`, throws
\* std::runtime_error(what), or never returns; calls counts the inflate calls.
Inflated(data, calls) ==
    [ok |-> TRUE, hang |-> FALSE, data |-> data, what |-> <<>>, calls |-> calls]

Thrown(what, calls) ==
    [ok |-> FALSE, hang |-> FALSE, data |-> <<>>, what |-> what, calls |-> calls]

Hangs(calls) ==
    [ok |-> FALSE, hang |-> TRUE, data |-> <<>>, what |-> <<>>, calls |-> calls]

\* Lines 1160-1165: the text of an error code.
ErrorText(ret) ==
    IF ret = "Z_STREAM_ERROR" THEN WhatStreamError
    ELSE IF ret = "Z_DATA_ERROR" THEN WhatCorruptData
    ELSE WhatMemoryError

\* std::to_string of a return code (Z_OK 0, Z_STREAM_END 1, Z_NEED_DICT 2,
\* Z_BUF_ERROR -5) and of a chunk count below 10.
RetNumber(ret) ==
    IF ret = "Z_OK" THEN <<48>>
    ELSE IF ret = "Z_STREAM_END" THEN <<49>>
    ELSE IF ret = "Z_NEED_DICT" THEN <<50>>
    ELSE <<45, 53>>

\* Lines 1141-1183: the do-while loop after chunk_count calls of inflate, and
\* what follows it.
RECURSIVE InflateLoop(_, _, _)
InflateLoop(chunks, chunk_count, decompressed) ==
    LET c == chunks[chunk_count + 1]
    IN  IF c.ret \in {"Z_STREAM_ERROR", "Z_DATA_ERROR", "Z_MEM_ERROR"}
        THEN Thrown(WhatFailedAtChunk \o <<48 + chunk_count + 1, 58, 32>> \o ErrorText(c.ret),
                    chunk_count + 1)
        ELSE IF c.ret # "Z_STREAM_END" /\ c.more
        THEN IF chunk_count + 1 < Len(chunks)
             THEN InflateLoop(chunks, chunk_count + 1, decompressed \o c.out)
             ELSE Hangs(chunk_count + 1)
        ELSE IF c.ret = "Z_STREAM_END"
        THEN Inflated(decompressed \o c.out, chunk_count + 1)
        ELSE Thrown(WhatIncomplete \o RetNumber(c.ret), chunk_count + 1)

\* decompress_zlib_verbose
decompress_zlib_verbose(compressed_data, z) ==
    IF ~validate_zlib_header(compressed_data) THEN Thrown(WhatInvalidHeader, 0)
    ELSE IF z.init # "Z_OK" THEN Thrown(WhatInitFailed, 0)
    ELSE InflateLoop(z.chunks, 0, <<>>)

---------------------------------------------------------------------------
(* SpiwriteCommand.cpp: the text path and Execute *)

\* What the surroundings decide during one operation:
\*   ub       what the build does where behaviour is undefined (UBOutcomes)
\*   oob      the byte that lies past the end of a buffer read out of bounds
\*   busy     how many polls of the send-status register read non-zero
\*            before one reads zero; Forever when none ever reads zero
\*   readOk   whether wr.readMemory succeeds (the window is mapped)
\*   inflate  what zlib answers when a compressed container is inflated
Forever == 0 - 1

InflateFailed ==
    [init |-> "Z_OK", chunks |-> <<[ret |-> "Z_DATA_ERROR", more |-> TRUE, out |-> <<>>]>>]

DefaultEnv ==
    [ub |-> "exception", oob |-> 0, busy |-> 0, readOk |-> TRUE,
     inflate |-> InflateFailed]

\* The engine state an operation starts from and ends in.  message and
\* responses are the Result the operation returns (SpiwriteCommand.h:24-28);
\* status is "ok", or "ub" (undefined behaviour was hit) or "hang" (the call
\* never returns).
Engine(queues, cnt) ==
    [queues |-> queues, count |-> cnt, log |-> <<>>, pushed |-> <<>>,
     message |-> <<>>, responses |-> <<>>, status |-> "ok", calls |-> <<>>]

IsDelim(c) == c = 32 \/ c = 38              \* ' ' or '&'

\* Lines 1316-1319: skip consecutive delimiters.
RECURSIVE SkipDelims(_, _)
SkipDelims(raw, pos) ==
    IF pos < Len(raw) /\ IsDelim(raw[pos + 1]) THEN SkipDelims(raw, pos + 1) ELSE pos

\* Lines 1304-1329: the tokenizer of Execute (pos and start are 0-based).
RECURSIVE TokScan(_, _, _, _)
TokScan(raw, pos, start, tokens) ==
    IF pos < Len(raw)
    THEN IF IsDelim(raw[pos + 1])
         THEN LET t == IF pos > start
                       THEN Append(tokens, SubSeq(raw, start + 1, pos))
                       ELSE tokens
                  p == SkipDelims(raw, pos)
              IN  TokScan(raw, p, p, t)
         ELSE TokScan(raw, pos + 1, start, tokens)
    ELSE IF start < Len(raw)
         THEN Append(tokens, SubSeq(raw, start + 1, Len(raw)))
         ELSE tokens

Tokenize(raw) == TokScan(raw, 0, 0, <<>>)

\* Lines 986-1005: the polls of the send-status register at 0x43c00014.
RECURSIVE PollReads(_)
PollReads(n) ==
    IF n = 0 THEN <<>> ELSE <<ReadAccess(BASE_ADDR + 20)>> \o PollReads(n - 1)

\* Lines 1007-1038: the remaining-FIFO-size reads of the eight buses.
RemainingReads == [b \in 1..8 |-> ReadAccess(FIFO_ADDR + (b - 1) * BUS_STRIDE + 12)]

\* std::string::substr(pos, n): at most n characters from the 0-based pos.
Substr(str, pos, n) ==
    SubSeq(str, pos + 1, IF pos + n < Len(str) THEN pos + n ELSE Len(str))

\* A comparison of the verb that accepts every token beginning with it.
IsVerbPrefix(cmd, verb) == Substr(cmd, 0, Len(verb)) = verb

\* Lines 937 and 955: cmd == "start", cmd == "done".
IsVerb(cmd, verb) == cmd = verb

\* A start that reads the control register back and returns the value.
StartCommandWithReadback(eng) ==
    [eng EXCEPT !.count = 0,
                !.log = @ \o << WriteAccess(FIFO_ADDR + 44, U32(2)),
                                ReadAccess(FIFO_ADDR + 44) >>,
                !.message = MsgStartDone,
                !.responses = <<U32(2)>>]

\* Lines 937-953: the verb start.
StartCommand(eng) ==
    [eng EXCEPT !.count = 0,
                !.log = Append(@, WriteAccess(FIFO_ADDR + 44, U32(2))),
                !.message = MsgStartDone]

\* SpiwriteCommand::parse_text_commands
parse_text_commands(tokens, eng, env) ==
    IF tokens = <<>>
    THEN [eng EXCEPT !.status = "ub"]              \* tokens[0] of an empty vector
    ELSE IF IsVerb(tokens[1], TxtStart)
    THEN StartCommand(eng)
    ELSE IF IsVerb(tokens[1], TxtDone)
    THEN LET writes == << WriteAccess(BASE_ADDR + 24, U32(5)),
                          WriteAccess(BASE_ADDR + 28, U32(1)),
                          WriteAccess(BASE_ADDR + 20, U32(255)) >>
         IN  IF ~env.readOk
             THEN [eng EXCEPT !.log = @ \o writes \o PollReads(1) \o RemainingReads,
                              !.message = MsgDoneComplete]
             ELSE IF env.busy = Forever
             THEN [eng EXCEPT !.log = @ \o writes \o PollReads(1), !.status = "hang"]
             ELSE [eng EXCEPT !.log = @ \o writes \o PollReads(env.busy + 1)
                                        \o RemainingReads,
                              !.message = MsgDoneComplete]
    ELSE [eng EXCEPT !.message = MsgWhat]

\* Lines 962-984: the three writes of the verb done.
DoneWritesLog ==
    << WriteAccess(BASE_ADDR + 24, U32(5)),
       WriteAccess(BASE_ADDR + 28, U32(1)),
       WriteAccess(BASE_ADDR + 20, U32(255)) >>

\* A poll loop that gives up after two polls.
KeepPollingWithTimeout(ok, value, n) == ok /\ value # U32(0) /\ n < 2

\* Lines 991-1004: the loop goes on unless readMemory failed or the value
\* read is 0; the number n of polls made plays no part.
KeepPolling(ok, value, n) == ok /\ value # U32(0)

\* IsZlibMagic without the test of the dictionary bit.
IsZlibMagicAnyFlag(first_byte, second_byte) == first_byte = 120

\* Lines 1202 and 1245-1266: the zlib container checks of Execute.
IsZlibMagic(first_byte, second_byte) ==
    first_byte = 120 /\ (second_byte \div 32) % 2 = 0

\* raw_command[i] for a 0-based i <= size(): the terminator reads as 0.
CharAt(raw, i) == IF i < Len(raw) THEN raw[i + 1] ELSE 0

\* raw_command[i] for any 0-based i: past the terminator the read is undefined
\* behaviour and yields whatever byte `oob` lies there.
CharPast(raw, i, oob) == IF i <= Len(raw) THEN CharAt(raw, i) ELSE oob

\* Decompressed without the catch of line 1291 reporting the failure: what
\* was inflated is parsed whether the stream failed or not.
DecompressedUnchecked(d, eng, env) ==
    IF d.hang THEN [eng EXCEPT !.status = "hang"]
    ELSE parse_binary_commands(d.data, eng, env.oob)

\* Lines 1269-1294: what Execute does with the outcome d of
\* decompress_zlib_verbose.
Decompressed(d, eng, env) ==
    IF d.hang THEN [eng EXCEPT !.status = "hang"]
    ELSE IF ~d.ok THEN [eng EXCEPT !.message = MsgDecompressionError \o d.what]
    ELSE parse_binary_commands(d.data, eng, env.oob)

\* SpiwriteCommand::Execute
Execute(raw_command, eng, env) ==
    IF Substr(raw_command, 0, 7) = TxtBinaryPrefix
    THEN LET zlib        == IsZlibMagic(CharAt(raw_command, 7),
                                        CharPast(raw_command, 8, env.oob))
             binary_data == SubSeq(raw_command, 8, Len(raw_command))
         IN  IF Len(binary_data) = 0
             THEN [eng EXCEPT !.message = MsgNoBinary]
             ELSE IF ~zlib
             THEN parse_binary_commands(binary_data, eng, env.oob)
             ELSE IF Len(binary_data) < 2
             THEN [eng EXCEPT !.message = MsgZlibShort]
             ELSE IF binary_data[1] % 16 # 8
             THEN [eng EXCEPT !.message = MsgZlibMethod]
             ELSE IF (binary_data[1] * 256 + binary_data[2]) % 31 # 0
             THEN [eng EXCEPT !.message = MsgZlibChecksum]
             ELSE Decompressed(decompress_zlib_verbose(binary_data, env.inflate),
                               Called(eng, "decompress_zlib_verbose", binary_data), env)
    ELSE parse_text_commands(Tokenize(raw_command), eng, env)

---------------------------------------------------------------------------
(* SpiwriteProtocol.h: MessageLines *)

\* strnlen(str, maxlen) of the C string held in `str` (a terminator follows
\* it): the index of the first NUL, at most maxlen.
strnlen(str, maxlen) ==
    LET n == IF Len(str) < maxlen THEN Len(str) ELSE maxlen
    IN  IF \A i \in 1..n : str[i] # 0
        THEN n
        ELSE (CHOOSE i \in 1..n : str[i] = 0 /\ \A j \in 1..(i - 1) : str[j] # 0) - 1

\* The longest string MessageLines(const char*) refuses.
MAX_LINES_LEN == 1400

\* MessageLines::MessageLines(const char*): "throw" when the string has 1400
\* characters or more, otherwise the characters and a terminator.
MessageLinesFromString(str_lines) ==
    LET len == strnlen(str_lines, MAX_LINES_LEN)
    IN  IF len >= MAX_LINES_LEN
        THEN [status |-> "throw", lines |-> <<>>]
        ELSE [status |-> "ok", lines |-> Append(SubSeq(str_lines, 1, len), 0)]

\* MessageLines::GetStringLines: lines.size() - 1 characters from &lines[0].
\* Of an empty `lines` the length is SIZE_MAX and the pointer is that of no
\* element: undefined behaviour.
GetStringLines(lines) ==
    IF Len(lines) = 0
    THEN [status |-> "ub", text |-> <<>>]
    ELSE [status |-> "ok", text |-> SubSeq(lines, 1, Len(lines) - 1)]

\* Parser::LineParser::SplitLines (the line parser library): the lines of a
\* text, split at CR and LF, empty lines dropped.
IsEol(c) == c = 10 \/ c = 13

\* The 0-based index of the first end-of-line character at or after pos, or
\* the length of the text when there is none.
NextEol(text, pos) ==
    IF \A i \in (pos + 1)..Len(text) : ~IsEol(text[i])
    THEN Len(text)
    ELSE (CHOOSE i \in (pos + 1)..Len(text) :
            IsEol(text[i]) /\ \A j \in (pos + 1)..(i - 1) : ~IsEol(text[j])) - 1

RECURSIVE SplitScan(_, _, _)
SplitScan(text, start, lines) ==
    IF start >= Len(text)
    THEN lines
    ELSE LET e == NextEol(text, start)
         IN  SplitScan(text, e + 1,
                       IF e > start THEN Append(lines, SubSeq(text, start + 1, e))
                       ELSE lines)

SplitLines(text) == SplitScan(text, 0, <<>>)

---------------------------------------------------------------------------
(* SpiwriteFrameHandler.h: FrameHandler; SpitermRunner.cpp: Impl::OnMessage *)

\* The handler during one OnReceive call.  outcome is "running" until the
\* call ends:
\*   "returned"         OnReceive returned
\*   "throw_not_ready"  DecodeFrame's "Frame is not ready yet!" left OnReceive
\*   "throw_short"      DecodeFrame's "... recevied but ... needed" left it
\*   "throw_decode"     an exception out of DecodeFrame's undefined behaviour
\*   "throw_handler"    an exception left OnMessage and OnReceive
\*   "crash"            the process died
\*   "hang"             the call never returns
Handler(seq, lines_sent, queues, cnt) ==
    [sequence_ |-> seq, sent |-> <<>>, events |-> <<>>, sentLines |-> lines_sent,
     eng |-> Engine(queues, cnt), outcome |-> "running", processed |-> 0,
     passes |-> <<>>]

\* FrameHandler::Send: the frame's DeepCopy goes to on_send_.
Send(frame, hs, le) == [hs EXCEPT !.sent = Append(@, DeepCopy(frame, le))]

\* FrameHandler::Ack
Ack(sequence, msg_type, hs, le) ==
    Send([head    |-> ToNetwork([start |-> MSG_STRAT_CODE, sequence |-> sequence,
                                 message_type |-> msg_type,
                                 message_length |-> U32(0)], le),
          message |-> <<>>], hs, le)

\* An OnPreMessage that acknowledges every frame, ACK frames too.
OnPreMessageAckAll(f, hs, le) ==
    Ack(f.head.sequence, MSG_ACK,
        [hs EXCEPT !.events = Append(@, [hook |-> "pre", head |-> f.head])], le)

\* FrameHandler::OnPreMessage (not overridden by SpitermRunner::Impl)
OnPreMessage(f, hs, le) ==
    LET h == [hs EXCEPT !.events = Append(@, [hook |-> "pre", head |-> f.head])]
    IN  IF f.head.message_type = MSG_ACK THEN h
        ELSE Ack(f.head.sequence, MSG_ACK, h, le)

\* A GetSequenceAndIncrement that returns ++sequence_.
GetSequencePreIncrement(seq) == [value |-> seq + 1, next |-> seq + 1]

\* FrameHandler::GetSequenceAndIncrement: the value returned and the counter after.
GetSequenceAndIncrement(seq) == [value |-> seq, next |-> seq + 1]

\* What e.what() reads for an exception of unknown origin: '?'
WhatUnknown == <<63>>

\* Lines 41-54 and 60-78 of SpitermRunner.cpp: the Result of Execute, or the exception
\* caught, appended to the reply.  lr is [eng, rep, outcome]; e is the engine
\* after Execute.
AppendResult(lr, e, env) ==
    IF e.status = "hang"
    THEN [eng |-> e, rep |-> lr.rep, outcome |-> "hang"]
    ELSE IF e.status = "ub"
    THEN IF env.ub = "crash"
         THEN [eng |-> e, rep |-> lr.rep, outcome |-> "crash"]
         ELSE [eng |-> [e EXCEPT !.status = "ok"],
               rep |-> lr.rep \o TxtErrorPrefix \o WhatUnknown \o TxtCRLF,
               outcome |-> "running"]
    ELSE [eng |-> e,
          rep |-> IF e.message # <<>> THEN lr.rep \o e.message \o TxtCRLF ELSE lr.rep,
          outcome |-> "running"]

ExecuteLine(line, lr, env) == AppendResult(lr, Execute(line, lr.eng, env), env)

RECURSIVE ExecuteLines(_, _, _, _)
ExecuteLines(lines, i, lr, env) ==
    IF i > Len(lines) \/ lr.outcome # "running"
    THEN lr
    ELSE ExecuteLines(lines, i + 1, ExecuteLine(lines[i], lr, env), env)

\* Lines 36-80: the reply to one message: a BINARY: message goes to Execute
\* whole, any other one line at a time.
BuildReply(full_message, lr0, env) ==
    IF Len(full_message) >= 7 /\ Substr(full_message, 0, 7) = TxtBinaryPrefix
    THEN ExecuteLine(full_message, lr0, env)
    ELSE ExecuteLines(SplitLines(full_message), 1, lr0, env)

\* Lines 88-93: the reply frame, with the next sequence number, is sent.
SendLines(h, sq, lines, le) ==
    Send([head    |-> ToNetwork([start |-> MSG_STRAT_CODE,
                                 sequence |-> U32(sq.value),
                                 message_type |-> MSG_LINES,
                                 message_length |-> U32(Len(lines))], le),
          message |-> lines],
         [h EXCEPT !.sequence_ = sq.next, !.sentLines = Append(@, sq.value)], le)

\* Lines 82-86: the prompt is appended and the reply made a MessageLines.
SendReply(h, rmsg, le) ==
    IF rmsg.status = "throw"
    THEN [h EXCEPT !.outcome = "throw_handler"]
    ELSE SendLines(h, GetSequenceAndIncrement(h.sequence_), rmsg.lines, le)

Reply(h, lr, le) ==
    IF lr.outcome # "running"
    THEN [h EXCEPT !.eng = lr.eng, !.outcome = lr.outcome]
    ELSE SendReply([h EXCEPT !.eng = lr.eng],
                   MessageLinesFromString(lr.rep \o TxtPrompt), le)

HandleText(h, sv, env, le) ==
    IF sv.status = "ub"
    THEN [h EXCEPT !.outcome = IF env.ub = "crash" THEN "crash" ELSE "throw_handler"]
    ELSE Reply(h, BuildReply(sv.text,
                             [eng |-> [h.eng EXCEPT !.message = <<>>], rep |-> <<>>,
                              outcome |-> "running"],
                             env),
               le)

\* SpitermRunner::Impl::OnMessage
OnMessage(head, lines, hs, env, le) ==
    HandleText([hs EXCEPT !.events = Append(@, [hook |-> "msg", head |-> head])],
               GetStringLines(lines), env, le)

\* Lines 25-29 of SpiwriteFrameHandler.h: OnMessage for a LINES frame.
DispatchMessage(frame, h, env, le) ==
    IF frame.head.message_type = MSG_LINES
    THEN OnMessage(frame.head, frame.message, h, env, le)
    ELSE h

\* A HandleFrame that leaves the loop at a frame without the magic.
HandleFrameStopAtBadStart(frame, h, env, le) ==
    IF frame.head.start # MSG_STRAT_CODE
    THEN [h EXCEPT !.outcome = "returned"]
    ELSE DispatchMessage(frame, OnPreMessage(frame, h, le), env, le)

\* Lines 20-29: a frame without the magic is skipped; any other goes to the
\* pre-message hook and is dispatched.
HandleFrame(frame, h, env, le) ==
    IF frame.head.start # MSG_STRAT_CODE
    THEN h
    ELSE DispatchMessage(frame, OnPreMessage(frame, h, le), env, le)

\* Lines 17-18: the frame decoded at `processed`, and `processed` advanced.
DecodeStep(hs, d, env, le) ==
    IF d.status = "not_ready" THEN [hs EXCEPT !.outcome = "throw_not_ready"]
    ELSE IF d.status = "short" THEN [hs EXCEPT !.outcome = "throw_short"]
    ELSE IF d.status = "ub"
    THEN [hs EXCEPT !.outcome = IF env.ub = "crash" THEN "crash" ELSE "throw_decode"]
    ELSE HandleFrame(d.frame, [hs EXCEPT !.processed = @ + Length(d.frame)], env, le)

\* One iteration of the loop of FrameHandler::OnReceive.
ReceiveStep(packet, len, hs, env, le, bits) ==
    DecodeStep(hs,
               DecodeFrame(SubSeq(packet, hs.processed + 1, Len(packet)),
                           len - hs.processed, le, bits),
               env, le)

\* FrameHandler::OnReceive: the loop from `processed` on.
RECURSIVE OnReceiveLoop(_, _, _, _, _, _)
OnReceiveLoop(packet, len, hs, env, le, bits) ==
    IF hs.outcome # "running"
    THEN hs
    ELSE IF ~(hs.processed < len)
    THEN [hs EXCEPT !.outcome = "returned"]
    ELSE OnReceiveLoop(packet, len,
                       ReceiveStep(packet, len,
                                   [hs EXCEPT !.passes = Append(@, hs.processed)],
                                   env, le, bits),
                       env, le, bits)

---------------------------------------------------------------------------
(* ConsoleRunner.cpp: the beamforming phase *)

\* An angle is a whole number of units of 2^-20 degree.  Such a number is a
\* double, and it is a float when its magnitude has 24 significant bits or
\* fewer; sums and fmod of such numbers below 2^31 units are exact in double.
UnitsPerDegree == 1048576

Deg(d) == d * UnitsPerDegree

\* The spacing of the floats around the magnitude v: the least power of two q
\* with v < 2^24 * q.
RECURSIVE FloatSpacing(_, _)
FloatSpacing(v, q) == IF v \div q < 16777216 THEN q ELSE FloatSpacing(v, 2 * q)

\* The conversion of the double v >= 0 to float: the nearest float, the one
\* with the even mantissa when two are as near.
NearestFloat(v, q) ==
    IF 2 * (v % q) < q THEN v - (v % q)
    ELSE IF 2 * (v % q) > q THEN v - (v % q) + q
    ELSE IF ((v - (v % q)) \div q) % 2 = 0 THEN v - (v % q)
    ELSE v - (v % q) + q

RoundToFloat(v) ==
    IF v >= 0 THEN NearestFloat(v, FloatSpacing(v, 1))
    ELSE 0 - NearestFloat(0 - v, FloatSpacing(0 - v, 1))

\* std::fmod(x, y) for y > 0: the remainder with the sign of x.
fmod(x, y) == IF x >= 0 THEN x % y ELSE 0 - ((0 - x) % y)

\* normalize_degrees: norm is a float, and `norm += 360.0` adds in double and
\* converts the sum to float.
normalize_degrees(degrees) ==
    IF degrees >= 0 /\ degrees < Deg(360) THEN degrees
    ELSE IF fmod(degrees, Deg(360)) < 0
    THEN RoundToFloat(fmod(degrees, Deg(360)) + Deg(360))
    ELSE fmod(degrees, Deg(360))

\* phase(xi, yi).  g are the pointing globals as the guard of line 62 sees
\* them; p is the float that line 79 computes from them and from the position
\* (xi, yi) with the library's cos and sin.
phase(g, p) ==
    IF g.az_nan \/ g.el_nan \/ g.freq_zero THEN 0
    ELSE normalize_degrees(p)

\* Lines 941-951 of Run: the poles added and the sum brought into [0, 360),
\* in double.
FinalPhase(calculated_phase, poles) ==
    IF fmod(calculated_phase + Deg(poles), Deg(360)) < 0
    THEN fmod(calculated_phase + Deg(poles), Deg(360)) + Deg(360)
    ELSE fmod(calculated_phase + Deg(poles), Deg(360))

\* 5.625 degrees, the step of the 6-bit phase code.
PhaseStep == 5898240

\* Line 990: int(fmod(final_phase + 360.0, 360.0) / 5.625); the conversion to
\* int drops the fraction.
IntPhase(final_phase) == fmod(final_phase + Deg(360), Deg(360)) \div PhaseStep

\* Lines 993-1008: the 16-bit device value.
DeviceValue(is_tx, int_phase) ==
    IF is_tx = 1
    THEN 127 * 2 + 3 * 256 + (int_phase % 64) * 1024
    ELSE 1 * 8 + 63 * 16 + (int_phase % 64) * 1024

---------------------------------------------------------------------------
(* Inputs *)

\* Bounds of the model.
MaxPayload == 3          \* longest payload of a frame handed to DecodeFrame alone

MaxCalls == 2            \* OnReceive is called at most this many times

MaxBinLen == 12          \* longest buffer handed to parse_binary_commands alone

\* The bytes of a frame on the wire: the four header fields most significant
\* byte first (network order), then the payload.
FrameBytes(start, sequence, message_type, message_length, payload) ==
    start \o sequence \o message_type \o message_length \o payload

\* A well-formed frame: message_length is the length of the payload.
WellFormed(start, sequence, message_type, payload) ==
    FrameBytes(start, sequence, message_type, U32(Len(payload)), payload)

Pattern(n, base) == [i \in 1..n |-> (base + i) % 256]

BadStart == <<0, 0, 0, 0>>

MSG_OTHER == <<0, 0, 0, 3>>

\* message_length values around the payload length n, and values so large
\* that sizeof(Header) + message_length does not fit in 32 bits.
DeclaredLengths(n) ==
    {U32(n), U32(n + 1), <<0, 1, 0, 0>>, <<1, 0, 0, 0>>,
     <<255, 255, 255, 240>>, <<255, 255, 255, 255>>}
        \cup (IF n > 0 THEN {U32(n - 1)} ELSE {})

DecodeInputs ==
    { FrameBytes(st, sq, ty, ml, Pattern(n, 64)) :
        st \in {MSG_STRAT_CODE, BadStart},
        sq \in {<<0, 0, 0, 1>>, <<200, 1, 2, 3>>},
        ty \in {MSG_ACK, MSG_LINES},
        ml \in UNION {DeclaredLengths(k) : k \in 0..MaxPayload},
        n  \in 0..MaxPayload }
    \cup { SubSeq(WellFormed(MSG_STRAT_CODE, <<0, 0, 0, 1>>, MSG_LINES, Pattern(2, 64)), 1, k) :
             k \in 0..(HEADER_SIZE - 1) }

RECURSIVE Repeat(_, _)
Repeat(str, n) == IF n = 0 THEN <<>> ELSE str \o Repeat(str, n - 1)

\* Payloads of LINES frames: C strings with their terminator.
PayX == <<120, 0>>                                     \* "x"

PayStart == TxtStart \o <<0>>                          \* "start"

PayDone == TxtDone \o <<0>>                            \* "done"

PayTwo == <<120, 10>> \o TxtStart \o <<0>>             \* "x" LF "start"

PaySpaces == <<32, 38, 0>>                             \* " &"

PayBinary == TxtBinaryPrefix \o Pattern(8, 16) \o <<0>>

PayLong(n) == Repeat(TxtStart \o <<10>>, n) \o <<0>>   \* n lines "start"

\* The least number of "start" lines whose reply, with the prompt, is
\* MAX_LINES_LEN characters or more.
LongReplyLines ==
    (MAX_LINES_LEN - Len(TxtPrompt) - 1) \div Len(MsgStartDone \o TxtCRLF) + 1

\* The sequence field of the frame at position k of a byte run.
SeqAt(k) == <<200 + k, 1, 2, k>>

\* Frames a byte run is made of, by position.
LinesX(k) == WellFormed(MSG_STRAT_CODE, SeqAt(k), MSG_LINES, PayX)

AckFrame(k) == WellFormed(MSG_STRAT_CODE, SeqAt(k), MSG_ACK, <<>>)

OtherFrame(k) == WellFormed(MSG_STRAT_CODE, SeqAt(k), MSG_OTHER, PayX)

BadFrame(k) == WellFormed(BadStart, SeqAt(k), MSG_LINES, PayX)

EmptyLines(k) == WellFormed(MSG_STRAT_CODE, SeqAt(k), MSG_LINES, <<>>)

LongFrame(k, n) == WellFormed(MSG_STRAT_CODE, SeqAt(k), MSG_LINES, PayLong(n))

CoreFrames(k) == {LinesX(k), AckFrame(k), OtherFrame(k), BadFrame(k), EmptyLines(k)}

PlainFrames(k) ==
    CoreFrames(k) \cup
    { WellFormed(MSG_STRAT_CODE, SeqAt(k), MSG_LINES, pl) :
        pl \in {PayStart, PayTwo, PayBinary} }
    \cup {LongFrame(k, LongReplyLines - 1), LongFrame(k, LongReplyLines)}
    \cup {WellFormed(BadStart, SeqAt(k), MSG_ACK, <<>>)}

\* Byte runs that are whole frames back to back.
WholeRuns ==
    PlainFrames(1)
    \cup {a \o b : a \in CoreFrames(1), b \in CoreFrames(2)}
    \cup {LongFrame(1, LongReplyLines) \o LinesX(2)}
    \cup {a \o b \o c : a \in {LinesX(1), AckFrame(1), BadFrame(1)},
                        b \in {LinesX(2), AckFrame(2), BadFrame(2)},
                        c \in {LinesX(3), AckFrame(3), BadFrame(3)}}

\* Byte runs that end inside a frame, and the bytes that complete them.
CutPoints == {8, HEADER_SIZE, HEADER_SIZE + 1}

BrokenRuns ==
    {SubSeq(LinesX(1), 1, k) : k \in CutPoints}
    \cup {SubSeq(LinesX(1), k + 1, Len(LinesX(1))) : k \in CutPoints}
    \cup {AckFrame(1) \o SubSeq(LinesX(2), 1, k) : k \in CutPoints}

\* Byte runs on which the code's behaviour is undefined.
UBRuns ==
    {EmptyLines(1), LinesX(1) \o EmptyLines(2), EmptyLines(1) \o LinesX(2),
     WellFormed(MSG_STRAT_CODE, SeqAt(1), MSG_LINES, PaySpaces),
     FrameBytes(MSG_STRAT_CODE, SeqAt(1), MSG_LINES, <<255, 255, 255, 248>>, PayX)}

\* The inputs of OnReceive: a byte run and what the surroundings decide.
WireInputs ==
    {[packet |-> p, env |-> DefaultEnv] : p \in WholeRuns \cup BrokenRuns \cup UBRuns}
    \cup {[packet |-> p, env |-> [DefaultEnv EXCEPT !.ub = "crash"]] : p \in UBRuns}
    \cup {[packet |-> WellFormed(MSG_STRAT_CODE, SeqAt(1), MSG_LINES, PayDone),
           env |-> [DefaultEnv EXCEPT !.busy = b, !.readOk = r]] :
             b \in {0, 1, Forever}, r \in BOOLEAN}

\* The inputs of parse_binary_commands called alone.
BinInputs == {Pattern(n, base) : n \in 0..MaxBinLen, base \in {16, 160}}

OOBBytes == {0, 255}

\* Buffers for decompress_zlib_verbose: a two-byte header followed by the same
\* three bytes, for every CMF with method 8, some CMF with another method
\* (00, 70, 77, 79, 7F, FF) and every FLG, and two buffers too short to hold a
\* header.
ZlibBody == <<1, 2, 3>>

CmfValues == {8 + 16 * cinfo : cinfo \in 0..15} \cup {0, 112, 119, 121, 127, 255}

ZlibBuffers ==
    {<<cmf, flg>> \o ZlibBody : cmf \in CmfValues, flg \in 0..255} \cup {<<>>, <<120>>}

Chunk(ret, more, out) == [ret |-> ret, more |-> more, out |-> out]

\* What zlib may answer on a buffer without the preset-dictionary flag:
\* the stream ends in the first or the second chunk (with or without input
\* left over), is corrupt in the first or the second chunk, runs out of
\* memory, or stops short of its end marker.
PlainStreams ==
    {<<Chunk("Z_STREAM_END", FALSE, <<7, 8, 9, 10, 11>>)>>,
     <<Chunk("Z_STREAM_END", TRUE, <<>>)>>,
     <<Chunk("Z_OK", TRUE, <<7, 8>>), Chunk("Z_STREAM_END", FALSE, <<9, 10, 11>>)>>,
     <<Chunk("Z_DATA_ERROR", TRUE, <<>>)>>,
     <<Chunk("Z_OK", TRUE, <<7, 8>>), Chunk("Z_DATA_ERROR", TRUE, <<>>)>>,
     <<Chunk("Z_MEM_ERROR", TRUE, <<>>)>>,
     <<Chunk("Z_OK", FALSE, <<7, 8>>)>>,
     <<Chunk("Z_OK", TRUE, <<7, 8>>), Chunk("Z_BUF_ERROR", FALSE, <<>>)>>}

\* and on a buffer with the flag (FLG bit 5), no dictionary being set: the
\* dictionary is asked for, on every call when input is left.
DictStreams ==
    {<<Chunk("Z_NEED_DICT", TRUE, <<>>)>>,
     <<Chunk("Z_NEED_DICT", FALSE, <<>>)>>,
     <<Chunk("Z_OK", FALSE, <<>>)>>}

HasFdict(data) == Len(data) >= 2 /\ (data[2] \div 32) % 2 = 1

ZlibAnswers(data) ==
    {[init |-> "Z_OK", chunks |-> c] : c \in IF HasFdict(data) THEN DictStreams ELSE PlainStreams}
        \cup {[init |-> "Z_MEM_ERROR", chunks |-> <<>>]}

\* Text lines handed to Execute: with the verb start
\* ('start', 'start now', ' start', 'start&done', '&& start  x')
StartLines ==
    {<<115, 116, 97, 114, 116>>,
     <<115, 116, 97, 114, 116, 32, 110, 111, 119>>,
     <<32, 115, 116, 97, 114, 116>>,
     <<115, 116, 97, 114, 116, 38, 100, 111, 110, 101>>,
     <<38, 38, 32, 115, 116, 97, 114, 116, 32, 32, 120>>}

\* with the verb done ('done', 'done now')
DoneLines ==
    {<<100, 111, 110, 101>>,
     <<100, 111, 110, 101, 32, 110, 111, 119>>}

\* with another verb
\* ('x', 'stop', 'started', 'START', 'x start', 'do&ne', 'don', 'starts&start', 'BINARY')
OtherLines ==
    {<<120>>,
     <<115, 116, 111, 112>>,
     <<115, 116, 97, 114, 116, 101, 100>>,
     <<83, 84, 65, 82, 84>>,
     <<120, 32, 115, 116, 97, 114, 116>>,
     <<100, 111, 38, 110, 101>>,
     <<100, 111, 110>>,
     <<115, 116, 97, 114, 116, 115, 38, 115, 116, 97, 114, 116>>,
     <<66, 73, 78, 65, 82, 89>>}

\* without any token ('', ' ', '& &')
NoVerbLines ==
    {<<>>,
     <<32>>,
     <<38, 32, 38>>}

\* and binary command lines of a few raw bytes.
BinaryLines == {TxtBinaryPrefix \o Pattern(n, 16) : n \in {4, 5, 8}}

\* and binary command lines that begin like a zlib container (78, FLG without
\* bit 5): 78 9C and 78 DA with a body, 78 01 without one, 78 9D (wrong check
\* value), 78 alone; and one that does not (78 BB: bit 5 of FLG set).
CompressedLines ==
    {TxtBinaryPrefix \o container :
        container \in {<<120, 156>> \o ZlibBody, <<120, 218>> \o ZlibBody, <<120, 1>>,
                       <<120, 157>> \o ZlibBody, <<120>>, <<120, 187, 1, 2, 3, 4>>}}

TextLines == StartLines \cup DoneLines \cup OtherLines \cup NoVerbLines \cup BinaryLines

\* What the surroundings decide during one Execute.
TextEnvs ==
    {[DefaultEnv EXCEPT !.busy = b, !.readOk = r, !.ub = u] :
        b \in {0, 1, 2, Forever}, r \in BOOLEAN, u \in UBOutcomes}

\* What zlib does during one Execute of a container line.
CompressedEnvs == {[DefaultEnv EXCEPT !.inflate = z] : z \in ZlibAnswers(<<>>)}

MaxPolls == 3            \* polls of one done that are counted and logged

\* The size of the window the engine maps at BASE_ADDR (line 421): 0xC0000.
WINDOW_SIZE == 786432

\* What open("/dev/mem") and mmap do during one call.
OsOutcomes == [open : BOOLEAN, mmap : BOOLEAN]

\* What a dereference outside every mapping does: the process dies, or the
\* access lands on whatever lies there.
WildOutcomes == {"crash", "stray"}

\* The arguments of initialize: page-aligned and other bases; sizes of less
\* than a page, of whole pages, of a page and a byte, and the largest size_t.
InitBases(bits) == {Word(BASE_ADDR + off, bits) : off \in {0, 4, PAGE_SIZE \div 2}}

InitSizes(bits) ==
    {Word(n, bits) : n \in {1, PAGE_SIZE, PAGE_SIZE + 1, WINDOW_SIZE}} \cup {WordNeg(1, bits)}

\* The addresses handed to readMemory and writeMemory: around both ends of
\* the window of w, at both ends of the address space, at the end of a page.
MemTargets(w, bits) ==
    {WordAdd(w.mapped_address, d) :
        d \in {Word(0, bits), Word(1, bits), Word(2, bits), Word(4, bits),
               Word(20, bits), WordNeg(4, bits)}}
    \cup {WordAdd(WordAdd(w.mapped_address, w.mapped_size), d) :
        d \in {WordNeg(4, bits), WordNeg(2, bits), Word(0, bits), Word(4, bits)}}
    \cup {Word(0, bits), Word(PAGE_SIZE - 2, bits), Word(BASE_ADDR + 20, bits),
          Word(BASE_ADDR + 22, bits), WordNeg(4, bits), WordNeg(1, bits)}

\* The addresses concurrent callers hand to readMemory and writeMemory: a
\* register of the window, an address that is not aligned, and one below the
\* window.
LockTargets(bits) ==
    {Word(BASE_ADDR + 20, bits), Word(BASE_ADDR + 22, bits), Word(BASE_ADDR - 4, bits)}

\* A bus is full when the chip address passes 0x1F (line 325).
ChipsPerBus == 32

CommandsPerBus == Len(RegisterAddrs) * ChipsPerBus

\* The bytes of one phase value for every register of every chip of every bus.
FullStream == 2 * CommandsPerBus * Cardinality(Buses)

MaxExtra == 12           \* most bytes a buffer holds beyond a full stream

\* Buffers of a full stream of values, and of more.
FullInputs == {Pattern(FullStream + extra, 16) : extra \in {0, 2, 3, MaxExtra}}

\* The buffers of the two instances: one value each, of different bytes.
ParInputs(i) == {Pattern(5, 16 + 144 * (i - 1))}

\* Command lines that carry a whole stream, and more than one.
StreamLines == {TxtBinaryPrefix \o data : data \in FullInputs}

\* 'start', 'done', a binary line of two values, a container line.
AddrLines ==
    {TxtStart, TxtDone, TxtBinaryPrefix \o Pattern(7, 16),
     TxtBinaryPrefix \o <<120, 156>> \o ZlibBody}

\* What the surroundings decide during one Execute of these.
AddrEnvs ==
    {[DefaultEnv EXCEPT !.busy = b, !.readOk = r, !.inflate = z] :
        b \in {0, 2, Forever}, r \in BOOLEAN,
        z \in {InflateFailed,
               [init |-> "Z_OK",
                chunks |-> <<Chunk("Z_STREAM_END", FALSE, Pattern(9, 32))>>]}}

\* The pointing globals: valid, or azimuth NaN, elevation NaN or a carrier
\* frequency of zero.
PointingStates ==
    {[az_nan |-> a, el_nan |-> e, freq_zero |-> z] : a, e, z \in BOOLEAN}

\* Values of the steering phase of line 79, positive and negative, whole and
\* fractional, inside and outside [0, 360), down to 2^-20 degree on either
\* side of zero and to the last float below 360; each is a float.
SteerValues ==
    {v \in {0, 1, 16, Deg(3), PhaseStep - 1, PhaseStep, Deg(123), Deg(354), Deg(359),
            Deg(360) - 32, Deg(360), Deg(400), Deg(725), Deg(2000),
            0 - 1, 0 - 16, 0 - 17, 0 - 48, 0 - Deg(6), 0 - Deg(90), 0 - Deg(360),
            0 - Deg(450), 0 - Deg(2000)} : RoundToFloat(v) = v}

\* The four offsets of lines 891-895.
Poles == {120, 30, 210, 300}

MaxStepCalls == 2        \* calls of parse_binary_commands followed pass by pass

\* Buffers of 1, 2, 3 and 4 values, one ending in half a value, and buffers of
\* 128 and 130 values: a whole bus, and two values of the next.
StepInputs ==
    {Pattern(n, 16) : n \in {5, 6, 7, 9, 11, 3 + 2 * CommandsPerBus, 7 + 2 * CommandsPerBus}}

\* A buffer of 1024 values: every bus filled and closed.
WholeStream == Pattern(FirstOffset + FullStream, 16)

\* What follows the prefix of a binary command line: nothing; one byte (78,
\* 10); containers 78 01, 78 5E, 78 9C, 78 DA; 78 9D (wrong check value);
\* 78 BB and 78 20 (dictionary bit set, check value right); 79 9C and 9C 78
\* (no magic); raw values.
BinaryBodies ==
    {<<>>, <<120>>, <<16>>, <<120, 1>>, <<120, 94>> \o ZlibBody, <<120, 156>> \o ZlibBody,
     <<120, 218>> \o ZlibBody, <<120, 157>> \o ZlibBody, <<120, 187, 1, 2, 3, 4>>,
     <<120, 32, 1, 2, 3>>, <<121, 156>> \o ZlibBody, <<156, 120>> \o ZlibBody,
     Pattern(4, 16), Pattern(5, 16), Pattern(6, 16), Pattern(8, 16)}

BinaryPathLines == {TxtBinaryPrefix \o body : body \in BinaryBodies}

\* What zlib does and what lies past the terminator of the line.
BinaryPathEnvs ==
    {[DefaultEnv EXCEPT !.inflate = z] : z \in ZlibAnswers(<<>>)}
        \cup {[DefaultEnv EXCEPT !.oob = o] : o \in OOBBytes}

---------------------------------------------------------------------------
(* States and actions *)

NoCall == [op |-> "none", arg |-> <<>>]

NoResult == [status |-> "none", message |-> <<>>, responses |-> <<>>]

EmptyQueues == [b \in Buses |-> <<>>]

InitBuild == hostLE \in BOOLEAN /\ sizeBits \in {32, 64}

IdleDecode ==
    /\ dfOut = [status |-> "idle", frame |-> NoFrame]
    /\ dfCopy = [raw |-> <<>>, net |-> <<>>]

\* FrameHandler's members after construction; nothing received yet.
IdleWire ==
    /\ sequence_ = 0
    /\ rxPacket = <<>>
    /\ rxLeft = <<>>
    /\ rxOutcome = "none"
    /\ rxCalls = 0
    /\ processed = 0
    /\ rxPasses = <<>>
    /\ sent = <<>>
    /\ events = <<>>
    /\ sentLines = <<>>

\* The globals of SpiwriteCommand.cpp after static initialization.
IdleEngine ==
    /\ byte_queues = EmptyQueues
    /\ count = 0
    /\ hwLog = <<>>
    /\ pushed = <<>>
    /\ engCall = NoCall
    /\ engResult = NoResult

\* A MemoryWriter as constructed (SpiwriteCommand.h:32-35), no call made.
IdleMemory ==
    /\ wr = NewWriter(sizeBits)
    /\ wrCall = [op |-> "none", addr |-> <<>>, size |-> <<>>]
    /\ wrResult = [status |-> "none", ret |-> FALSE, access |-> "none"]

Threads == {1, 2}

\* No text command done under way; the hardware is not sending.
IdleDone ==
    /\ donePc = "idle"
    /\ sendStatus = U32(0)
    /\ polled = [ok |-> FALSE, value |-> <<>>, n |-> 0]

\* No thread inside the MemoryWriter; the mutex is free.
IdleLock ==
    /\ thr = [t \in Threads |-> [pc |-> "idle", op |-> "none", addr |-> <<>>]]
    /\ write_mutex = 0

Instances == {1, 2}

\* No instance has entered parse_binary_commands.
IdleInstance ==
    [pc |-> "idle", data |-> <<>>, offset |-> 0, bus_id |-> 0, ucIcAddr |-> 0,
     reg_idx |-> 0, stop |-> FALSE, log |-> <<>>, cmd |-> <<>>, word |-> <<>>]

IdleInstances == inst = [i \in Instances |-> IdleInstance]

\* decompress_zlib_verbose not called.
IdleZlib ==
    /\ zCall = <<>>
    /\ zResult = [status |-> "none", data |-> <<>>, what |-> <<>>, inflateCalls |-> 0]

\* No array element worked on.
NoPointing ==
    [az_nan |-> FALSE, el_nan |-> FALSE, freq_zero |-> FALSE, steer |-> 0, poles |-> 0,
     is_tx |-> 0]

NoEntry ==
    [pc |-> "idle", calculated_phase |-> 0, final_phase |-> 0, int_phase |-> 0, value |-> 0]

IdlePhase ==
    /\ phaseIn = NoPointing
    /\ phaseOut = NoEntry

\* No call followed pass by pass; nothing queued or written yet.
IdleRun ==
    /\ run = [pc |-> "idle", data |-> <<>>, oob |-> 0, calls |-> 0, closing |-> <<>>,
              offset |-> 0, bus_id |-> 0, ucIcAddr |-> 0, reg_idx |-> 0, stop |-> FALSE]
    /\ appended = EmptyQueues
    /\ written = EmptyQueues

\* No steering request made yet.
NoSteer ==
    [pc |-> "idle", is_tx |-> 0, az_nan |-> FALSE, el_nan |-> FALSE, k |-> 0,
     prev_bus_id |-> 0, base_address |-> 0, queues |-> EmptyQueues, log |-> <<>>]

IdleSteer == steer = NoSteer

IdleOthers == IdleInstances /\ IdleZlib /\ IdlePhase /\ IdleRun /\ IdleSteer

(* DecodeFrame called alone on a buffer, and its result serialized again. *)

InitDecode ==
    /\ InitBuild
    /\ dfIn \in DecodeInputs
    /\ IdleDecode
    /\ IdleWire
    /\ IdleEngine
    /\ IdleMemory
    /\ IdleDone
    /\ IdleLock
    /\ IdleOthers

DecodeCall ==
    /\ dfOut.status = "idle"
    /\ \E ub \in UBOutcomes :
         \E d \in {DecodeFrame(dfIn, Len(dfIn), hostLE, sizeBits)} :
            dfOut' = IF d.status = "ub" THEN [d EXCEPT !.status = ub] ELSE d
    /\ UNCHANGED <<buildVars, dfIn, dfCopy, wireVars, engineVars, memVars, doneVars, lockVars, parVars, zlibVars, phaseVars, stepVars, steerVars>>

Reserialize ==
    /\ dfOut.status = "ok"
    /\ dfCopy.raw = <<>>
    /\ dfCopy' = [raw |-> DeepCopy(dfOut.frame, hostLE),
                  net |-> DeepCopy([dfOut.frame EXCEPT !.head = ToNetwork(@, hostLE)],
                                   hostLE)]
    /\ UNCHANGED <<buildVars, dfIn, dfOut, wireVars, engineVars, memVars, doneVars, lockVars, parVars, zlibVars, phaseVars, stepVars, steerVars>>

NextDecode == DecodeCall \/ Reserialize

SpecDecode == InitDecode /\ [][NextDecode]_vars

(* The handler of SpitermRunner receiving byte runs. *)

InitWire ==
    /\ InitBuild
    /\ dfIn = <<>>
    /\ IdleDecode
    /\ IdleWire
    /\ IdleEngine
    /\ IdleMemory
    /\ IdleDone
    /\ IdleLock
    /\ IdleOthers

OnReceive(in) ==
    /\ rxOutcome \notin {"crash", "hang"}
    /\ rxCalls < MaxCalls
    /\ \E hs \in {OnReceiveLoop(in.packet, Len(in.packet),
                                Handler(sequence_, sentLines, byte_queues, count),
                                in.env, hostLE, sizeBits)} :
         /\ sequence_' = hs.sequence_
         /\ rxPacket' = in.packet
         /\ rxLeft' = IF rxOutcome \in {"throw_not_ready", "throw_short"}
                      THEN SubSeq(rxPacket, processed + 1, Len(rxPacket))
                      ELSE <<>>
         /\ rxOutcome' = hs.outcome
         /\ rxCalls' = rxCalls + 1
         /\ processed' = hs.processed
         /\ rxPasses' = hs.passes
         /\ sent' = hs.sent
         /\ events' = hs.events
         /\ sentLines' = hs.sentLines
         /\ byte_queues' = hs.eng.queues
         /\ count' = hs.eng.count
         /\ hwLog' = hs.eng.log
         /\ pushed' = hs.eng.pushed
         /\ engCall' = [op |-> "OnReceive", arg |-> <<>>]
         /\ engResult' = [status |-> hs.eng.status, message |-> hs.eng.message,
                          responses |-> hs.eng.responses]
    /\ UNCHANGED <<buildVars, decodeVars, memVars, doneVars, lockVars, parVars, zlibVars, phaseVars, stepVars, steerVars>>

NextWire == \E in \in WireInputs : OnReceive(in)

SpecWire == InitWire /\ [][NextWire]_vars

(* The command engine called alone. *)

InitEngine ==
    /\ InitBuild
    /\ dfIn = <<>>
    /\ IdleDecode
    /\ IdleWire
    /\ IdleEngine
    /\ IdleMemory
    /\ IdleDone
    /\ IdleLock
    /\ IdleOthers

ParseBinaryCall(data, oob) ==
    /\ \E e \in {parse_binary_commands(data, Engine(byte_queues, count), oob)} :
         /\ byte_queues' = e.queues
         /\ count' = e.count
         /\ hwLog' = e.log
         /\ pushed' = e.pushed
         /\ engCall' = [op |-> "parse_binary_commands", arg |-> data]
         /\ engResult' = [status |-> e.status, message |-> e.message,
                          responses |-> e.responses]
    /\ UNCHANGED <<buildVars, decodeVars, wireVars, memVars, doneVars, lockVars, parVars, zlibVars, phaseVars, stepVars, steerVars>>

NextEngine == \E data \in BinInputs, oob \in OOBBytes : ParseBinaryCall(data, oob)

SpecEngine == InitEngine /\ [][NextEngine]_vars

(* The command engine fed whole streams: a long buffer as the first call of
   a run, short buffers after it on the queues it leaves. *)

FullParseCall(data, oob) ==
    /\ engCall.op = "none"
    /\ ParseBinaryCall(data, oob)

NextBus ==
    \/ \E data \in FullInputs, oob \in OOBBytes : FullParseCall(data, oob)
    \/ \E data \in BinInputs, oob \in OOBBytes : ParseBinaryCall(data, oob)

SpecBus == InitEngine /\ [][NextBus]_vars

(* One MemoryWriter called from one thread.  initialize is the first call
   when it is made at all; a call that died is the last one. *)

InitializeCall(base_addr, size, os) ==
    /\ wrCall.op = "none"
    /\ \E r \in {initialize(wr, base_addr, size, os)} :
         /\ wr' = r.wr
         /\ wrResult' = [status |-> "ok", ret |-> r.ret, access |-> "none"]
    /\ wrCall' = [op |-> "initialize", addr |-> base_addr, size |-> size]
    /\ UNCHANGED <<buildVars, decodeVars, wireVars, engineVars, doneVars, lockVars, parVars, zlibVars, phaseVars, stepVars, steerVars>>

\* The end of a readMemory or writeMemory call that got as far as r.
AccessDone(r, wild) ==
    /\ wrResult' = [status |-> IF r.access = "wild" THEN wild ELSE "ok",
                    ret |-> r.ret, access |-> r.access]
    /\ UNCHANGED <<wr, buildVars, decodeVars, wireVars, engineVars, doneVars, lockVars, parVars, zlibVars, phaseVars, stepVars, steerVars>>

ReadMemoryCall(target_address, wild) ==
    /\ wrResult.status # "crash"
    /\ wrCall' = [op |-> "readMemory", addr |-> target_address, size |-> <<>>]
    /\ AccessDone(readMemory(wr, target_address), IF wild = "crash" THEN "crash" ELSE "ok")

WriteMemoryCall(target_address, os, wild) ==
    /\ wrResult.status # "crash"
    /\ wrCall' = [op |-> "writeMemory", addr |-> target_address, size |-> <<>>]
    /\ AccessDone(writeMemory(wr, target_address, os),
                  IF wild = "crash" THEN "crash" ELSE "ok")

NextMem ==
    \/ \E base_addr \in InitBases(sizeBits), size \in InitSizes(sizeBits),
          os \in OsOutcomes : InitializeCall(base_addr, size, os)
    \/ \E t \in MemTargets(wr, sizeBits), wild \in WildOutcomes : ReadMemoryCall(t, wild)
    \/ \E t \in MemTargets(wr, sizeBits), os \in OsOutcomes, wild \in WildOutcomes :
          WriteMemoryCall(t, os, wild)

SpecMem == InitEngine /\ [][NextMem]_vars

(* The text command done step by step, on the engine as its constructor
   leaves it (line 421), next to the hardware. *)

ConstructedWriters(bits) ==
    { initialize(NewWriter(bits), Word(BASE_ADDR, bits), Word(WINDOW_SIZE, bits), os).wr :
        os \in OsOutcomes }

InitDone ==
    /\ InitBuild
    /\ dfIn = <<>>
    /\ IdleDecode
    /\ IdleWire
    /\ IdleEngine
    /\ wr \in ConstructedWriters(sizeBits)
    /\ wrCall = [op |-> "initialize", addr |-> Word(BASE_ADDR, sizeBits),
                 size |-> Word(WINDOW_SIZE, sizeBits)]
    /\ wrResult = [status |-> "ok", ret |-> wr.mapped_base = "mapped", access |-> "none"]
    /\ IdleDone
    /\ IdleLock
    /\ IdleOthers

\* Lines 955-984: done is called and makes its three writes.  The write of
\* the send mask, when it reaches the register, starts the hardware sending.
DoneWrites(os) ==
    /\ donePc \in {"idle", "returned"}
    /\ donePc' = "poll"
    /\ polled' = [ok |-> FALSE, value |-> <<>>, n |-> 0]
    /\ engResult' = NoResult
    /\ hwLog' = DoneWritesLog
    /\ sendStatus' = IF writeMemory(wr, Word(BASE_ADDR + 20, sizeBits), os).access = "none"
                     THEN sendStatus
                     ELSE U32(255)
    /\ engCall' = [op |-> "Execute", arg |-> TxtDone]
    /\ UNCHANGED <<byte_queues, count, pushed, buildVars, decodeVars, wireVars, memVars,
                   lockVars, parVars, zlibVars, phaseVars, stepVars, steerVars>>

\* Lines 987-1001: one poll of the send-status register.
PollDone(r) ==
    /\ polled' = [ok |-> r.ret, value |-> IF r.ret THEN sendStatus ELSE <<>>,
                  n |-> IF polled.n < MaxPolls THEN polled.n + 1 ELSE polled.n]
    /\ donePc' = IF KeepPolling(r.ret, sendStatus, polled.n + 1) THEN "sleep" ELSE "tail"

DonePoll ==
    /\ donePc = "poll"
    /\ PollDone(readMemory(wr, Word(BASE_ADDR + 20, sizeBits)))
    /\ hwLog' = IF polled.n < MaxPolls
                THEN Append(hwLog, ReadAccess(BASE_ADDR + 20))
                ELSE hwLog
    /\ UNCHANGED <<sendStatus, byte_queues, count, pushed, engCall, engResult, buildVars,
                   decodeVars, wireVars, memVars, lockVars, parVars, zlibVars, phaseVars, stepVars, steerVars>>

\* Lines 1003-1004: the sleep of 10 ms between two polls.
DoneSleep ==
    /\ donePc = "sleep"
    /\ donePc' = "poll"
    /\ UNCHANGED <<sendStatus, polled, engineVars, buildVars, decodeVars, wireVars,
                   memVars, lockVars, parVars, zlibVars, phaseVars, stepVars, steerVars>>

\* Lines 1007-1042: the eight remaining-size reads and the return.
DoneTail ==
    /\ donePc = "tail"
    /\ donePc' = "returned"
    /\ hwLog' = hwLog \o RemainingReads
    /\ engResult' = [status |-> "ok", message |-> MsgDoneComplete, responses |-> <<>>]
    /\ UNCHANGED <<sendStatus, polled, byte_queues, count, pushed, engCall, buildVars,
                   decodeVars, wireVars, memVars, lockVars, parVars, zlibVars, phaseVars, stepVars, steerVars>>

\* The hardware has sent everything: the send-status register reads 0.
HardwareFinishes ==
    /\ sendStatus # U32(0)
    /\ sendStatus' = U32(0)
    /\ UNCHANGED <<donePc, polled, engineVars, buildVars, decodeVars, wireVars,
                   memVars, lockVars, parVars, zlibVars, phaseVars, stepVars, steerVars>>

NextDone ==
    \/ \E os \in OsOutcomes : DoneWrites(os)
    \/ DonePoll
    \/ DoneSleep
    \/ DoneTail
    \/ HardwareFinishes

SpecDone == InitDone /\ [][NextDone]_vars

\* The thread that called done keeps running: its sleep ends and its next
\* statement is executed.  Nothing makes the hardware finish.
SpecDoneFair == SpecDone /\ WF_vars(DonePoll \/ DoneSleep \/ DoneTail)

(* Two threads calling readMemory and writeMemory of one MemoryWriter, which
   was never initialized or is as the engine's constructor leaves it.  A
   thread stands
     "entry"          at the test of line 208, before any lock;
     "lock"           at the lock_guard of line 182 or 213;
     "checks"         holding the mutex, at the checks of lines 185-194 or 216-226;
     "access"         holding the mutex, between the barriers of lines 199-201
                      or 234-236;
     "direct"         in writeMemoryDirect, before its page is mapped;
     "direct_access"  in writeMemoryDirect, between the barriers of lines 69-71. *)

InitLock ==
    /\ InitBuild
    /\ dfIn = <<>>
    /\ IdleDecode
    /\ IdleWire
    /\ IdleEngine
    /\ wr \in {NewWriter(sizeBits)} \cup ConstructedWriters(sizeBits)
    /\ wrCall = [op |-> "none", addr |-> <<>>, size |-> <<>>]
    /\ wrResult = [status |-> "none", ret |-> FALSE, access |-> "none"]
    /\ IdleDone
    /\ IdleLock
    /\ IdleOthers

LockFrame ==
    UNCHANGED <<buildVars, decodeVars, wireVars, engineVars, memVars, doneVars, parVars,
                zlibVars, phaseVars, stepVars, steerVars>>

Returned == [pc |-> "idle", op |-> "none", addr |-> <<>>]

CallRead(t, target_address) ==
    /\ thr[t].pc = "idle"
    /\ thr' = [thr EXCEPT ![t] = [pc |-> "lock", op |-> "readMemory",
                                  addr |-> target_address]]
    /\ UNCHANGED write_mutex
    /\ LockFrame

CallWrite(t, target_address) ==
    /\ thr[t].pc = "idle"
    /\ thr' = [thr EXCEPT ![t] = [pc |-> "entry", op |-> "writeMemory",
                                  addr |-> target_address]]
    /\ UNCHANGED write_mutex
    /\ LockFrame

\* Lines 208-211: the fallback is chosen before the mutex is taken.
WriteEntry(t) ==
    /\ thr[t].pc = "entry"
    /\ thr' = [thr EXCEPT ![t].pc = IF wr.mem_fd = NO_FD \/ wr.mapped_base = "nullptr"
                                    THEN "direct"
                                    ELSE "lock"]
    /\ UNCHANGED write_mutex
    /\ LockFrame

\* Lines 182 and 213: std::lock_guard<std::mutex> lock(write_mutex).
Acquire(t) ==
    /\ thr[t].pc = "lock"
    /\ write_mutex = 0
    /\ write_mutex' = t
    /\ thr' = [thr EXCEPT ![t].pc = "checks"]
    /\ LockFrame

\* Lines 185-194 and 216-226: a failed check returns false and the guard
\* releases the mutex.
Check(t) ==
    /\ thr[t].pc = "checks"
    /\ IF ~Aligned4(thr[t].addr) \/ OutOfMappedRange(wr, thr[t].addr)
       THEN thr' = [thr EXCEPT ![t] = Returned] /\ write_mutex' = 0
       ELSE thr' = [thr EXCEPT ![t].pc = "access"] /\ UNCHANGED write_mutex
    /\ LockFrame

\* Lines 199-203 and 234-238: the access, the return, the release.
Access(t) ==
    /\ thr[t].pc = "access"
    /\ thr' = [thr EXCEPT ![t] = Returned]
    /\ write_mutex' = 0
    /\ LockFrame

\* Lines 41-61 of writeMemoryDirect: the checks, open and mmap.
DirectMap(t, os) ==
    /\ thr[t].pc = "direct"
    /\ thr' = [thr EXCEPT ![t] = IF writeMemoryDirect(thr[t].addr, os).ret
                                 THEN [@ EXCEPT !.pc = "direct_access"]
                                 ELSE Returned]
    /\ UNCHANGED write_mutex
    /\ LockFrame

\* Lines 69-75 of writeMemoryDirect: the access, munmap, close, return.
DirectAccess(t) ==
    /\ thr[t].pc = "direct_access"
    /\ thr' = [thr EXCEPT ![t] = Returned]
    /\ UNCHANGED write_mutex
    /\ LockFrame

NextLock ==
    \E t \in Threads :
        \/ \E a \in LockTargets(sizeBits) : CallRead(t, a)
        \/ \E a \in LockTargets(sizeBits) : CallWrite(t, a)
        \/ WriteEntry(t)
        \/ Acquire(t)
        \/ Check(t)
        \/ Access(t)
        \/ \E os \in OsOutcomes : DirectMap(t, os)
        \/ DirectAccess(t)

SpecLock == InitLock /\ [][NextLock]_vars

(* Execute called alone on command lines.  A call that hit undefined
   behaviour or never returns is the last one of its run. *)

ExecuteCall(raw_command, env) ==
    /\ engResult.status \in {"none", "ok"}
    /\ \E e \in {Execute(raw_command, Engine(byte_queues, count), env)} :
         /\ byte_queues' = e.queues
         /\ count' = e.count
         /\ hwLog' = e.log
         /\ pushed' = e.pushed
         /\ engCall' = [op |-> "Execute", arg |-> raw_command, inflate |-> env.inflate,
                        calls |-> e.calls]
         /\ engResult' = [status |-> e.status, message |-> e.message,
                          responses |-> e.responses]
    /\ UNCHANGED <<buildVars, decodeVars, wireVars, memVars, doneVars, lockVars, parVars, zlibVars, phaseVars, stepVars, steerVars>>

NextText ==
    \/ \E raw_command \in TextLines, env \in TextEnvs : ExecuteCall(raw_command, env)
    \/ \E raw_command \in CompressedLines, env \in CompressedEnvs :
          ExecuteCall(raw_command, env)

SpecText == InitEngine /\ [][NextText]_vars


(* Execute given one binary command line, on empty queues. *)

NextBinary ==
    /\ engCall.op = "none"
    /\ \E raw_command \in BinaryPathLines, env \in BinaryPathEnvs :
          ExecuteCall(raw_command, env)

SpecBinary == InitEngine /\ [][NextBinary]_vars

(* The command engine given commands of every kind through Execute: a whole
   stream as the first command of a run, then start, done, binary lines and
   container lines in any order. *)

FirstExecuteCall(raw_command, env) ==
    /\ engCall.op = "none"
    /\ ExecuteCall(raw_command, env)

NextAddr ==
    \/ \E raw_command \in StreamLines : FirstExecuteCall(raw_command, DefaultEnv)
    \/ \E raw_command \in AddrLines, env \in AddrEnvs : ExecuteCall(raw_command, env)

SpecAddr == InitEngine /\ [][NextAddr]_vars

(* Two SpiwriteCommand instances inside parse_binary_commands, each on a
   thread of its own and with a MemoryWriter of its own.  byte_queues is one
   global of SpiwriteCommand.cpp (line 241): the two calls work on the same
   deques, and no lock is taken (queue_mutexes is never used).  A step is one
   statement on a deque or one call of the writer.  The buffers have odd
   lengths, so no call reads past the end of its buffer. *)

InstanceBase(r) == FIFO_ADDR + r.bus_id * BUS_STRIDE

InstanceFrame ==
    UNCHANGED <<buildVars, decodeVars, wireVars, count, hwLog, pushed, engCall, engResult,
                memVars, doneVars, lockVars, zlibVars, phaseVars, stepVars, steerVars>>

\* Lines 264-277: the call's locals at entry.
Enter(i, data) ==
    /\ inst[i].pc = "idle"
    /\ inst' = [inst EXCEPT ![i] = [IdleInstance EXCEPT !.pc = "loop", !.data = data,
                                                        !.offset = FirstOffset]]
    /\ UNCHANGED byte_queues
    /\ InstanceFrame

\* Lines 279-282: the loop condition, and the value of this pass.
LoopTest(i) ==
    /\ inst[i].pc = "loop"
    /\ inst' = [inst EXCEPT ![i] =
                  IF @.stop \/ ~(@.offset + 1 <= Len(@.data))
                  THEN [inst[i] EXCEPT !.pc = "done"]
                  ELSE [inst[i] EXCEPT
                          !.pc = "push",
                          !.cmd = BuildCommand(inst[i],
                                               ByteAt(inst[i].data, inst[i].offset, 0),
                                               ByteAt(inst[i].data, inst[i].offset + 1, 0))]]
    /\ UNCHANGED byte_queues
    /\ InstanceFrame

\* Lines 288-292: one push_back.
PushByte(i) ==
    /\ inst[i].pc = "push"
    /\ byte_queues' = [byte_queues EXCEPT ![inst[i].bus_id] = Append(@, Head(inst[i].cmd))]
    /\ inst' = [inst EXCEPT ![i].cmd = Tail(@),
                            ![i].pc = IF Len(inst[i].cmd) = 1 THEN "drain" ELSE "push"]
    /\ InstanceFrame

\* Line 296: the condition of the drain loop.
DrainTest(i) ==
    /\ inst[i].pc = "drain"
    /\ inst' = [inst EXCEPT ![i].word = <<>>,
                            ![i].pc = IF Len(byte_queues[inst[i].bus_id]) >= 4
                                      THEN "pop" ELSE "advance"]
    /\ UNCHANGED byte_queues
    /\ InstanceFrame

\* Lines 299-303: one q.front() and q.pop_front().  On a deque the other
\* thread has emptied in the meantime both are undefined.
PopByte(i) ==
    /\ inst[i].pc = "pop"
    /\ IF byte_queues[inst[i].bus_id] = <<>>
       THEN /\ inst' = [inst EXCEPT ![i].pc = "ub"]
            /\ UNCHANGED byte_queues
       ELSE /\ inst' = [inst EXCEPT ![i].word = Append(@, Head(byte_queues[inst[i].bus_id])),
                                    ![i].pc = IF Len(inst[i].word) = 3 THEN "write" ELSE "pop"]
            /\ byte_queues' = [byte_queues EXCEPT ![inst[i].bus_id] = Tail(@)]
    /\ InstanceFrame

\* Line 305: the word goes to the FIFO data register through the instance's
\* own writer.
WriteWord(i) ==
    /\ inst[i].pc = "write"
    /\ inst' = [inst EXCEPT ![i].log = Append(@, WriteAccess(InstanceBase(inst[i]) + 16,
                                                             inst[i].word)),
                            ![i].pc = "drain"]
    /\ UNCHANGED byte_queues
    /\ InstanceFrame

\* Lines 319-408: the cursors of the next pass.
Advance(i) ==
    /\ inst[i].pc = "advance"
    /\ inst' = [inst EXCEPT ![i] = [AdvanceCursors(inst[i], InstanceBase(inst[i]))
                                       EXCEPT !.pc = "loop"]]
    /\ UNCHANGED byte_queues
    /\ InstanceFrame

OnDeque(r) == r.pc \in {"push", "drain", "pop"}

\* Two threads at statements on the same deque at the same time, of which one
\* at least modifies it: a data race, after which nothing is defined.
Race(i, j) ==
    /\ i # j
    /\ OnDeque(inst[i]) /\ OnDeque(inst[j])
    /\ inst[i].bus_id = inst[j].bus_id
    /\ inst[i].pc # "drain" \/ inst[j].pc # "drain"
    /\ inst' = [inst EXCEPT ![i].pc = "ub", ![j].pc = "ub"]
    /\ UNCHANGED byte_queues
    /\ InstanceFrame

NextPar ==
    \/ \E i \in Instances : \E data \in ParInputs(i) : Enter(i, data)
    \/ \E i \in Instances : LoopTest(i)
    \/ \E i \in Instances : PushByte(i)
    \/ \E i \in Instances : DrainTest(i)
    \/ \E i \in Instances : PopByte(i)
    \/ \E i \in Instances : WriteWord(i)
    \/ \E i \in Instances : Advance(i)
    \/ \E i, j \in Instances : Race(i, j)

SpecPar == InitEngine /\ [][NextPar]_vars


(* decompress_zlib_verbose called alone on a buffer, once. *)

DecompressCall(compressed_data, z) ==
    /\ zCall' = compressed_data
    /\ \E d \in {decompress_zlib_verbose(compressed_data, z)} :
         zResult' = [status |-> IF d.hang THEN "hang" ELSE IF d.ok THEN "returned" ELSE "thrown",
                     data |-> d.data, what |-> d.what, inflateCalls |-> d.calls]
    /\ UNCHANGED <<buildVars, decodeVars, wireVars, engineVars, memVars, doneVars, lockVars,
                   parVars, phaseVars, stepVars, steerVars>>

NextZlib ==
    /\ zResult.status = "none"
    /\ \E compressed_data \in ZlibBuffers : \E z \in ZlibAnswers(compressed_data) :
         DecompressCall(compressed_data, z)

SpecZlib == InitEngine /\ [][NextZlib]_vars


(* One array element in Run: its phase, then its device value. *)

PhaseFrame ==
    UNCHANGED <<buildVars, decodeVars, wireVars, engineVars, memVars, doneVars, lockVars,
                parVars, zlibVars, stepVars, steerVars>>

\* Lines 933-951.
CalcPhase(g, p, poles, is_tx) ==
    /\ phaseOut.pc = "idle"
    /\ phaseIn' = [az_nan |-> g.az_nan, el_nan |-> g.el_nan, freq_zero |-> g.freq_zero,
                   steer |-> p, poles |-> poles, is_tx |-> is_tx]
    /\ phaseOut' = [pc |-> "phased", calculated_phase |-> phase(g, p),
                    final_phase |-> FinalPhase(phase(g, p), poles),
                    int_phase |-> 0, value |-> 0]
    /\ PhaseFrame

\* Lines 990-1008.
PackValue ==
    /\ phaseOut.pc = "phased"
    /\ phaseOut' = [phaseOut EXCEPT !.pc = "packed",
                                    !.int_phase = IntPhase(phaseOut.final_phase),
                                    !.value = DeviceValue(phaseIn.is_tx,
                                                          IntPhase(phaseOut.final_phase))]
    /\ UNCHANGED phaseIn
    /\ PhaseFrame

\* The loops of lines 914 and 973 go on to the next element, whose phase is
\* not computed yet.
NextEntry ==
    /\ phaseOut.pc = "packed"
    /\ phaseIn' = NoPointing
    /\ phaseOut' = NoEntry
    /\ PhaseFrame

NextPhase ==
    \/ /\ phaseOut.pc = "idle"
       /\ \E g \in PointingStates, p \in SteerValues, poles \in Poles, is_tx \in {0, 1} :
             CalcPhase(g, p, poles, is_tx)
    \/ PackValue
    \/ NextEntry

SpecPhase == InitEngine /\ [][NextPhase]_vars


(* parse_binary_commands followed pass by pass through its while loop, call
   after call on the queues the calls before left.  appended and written
   keep, for each bus, every byte queued and every byte written to the FIFO
   data register since the program started; run.closing keeps, for each
   bus-close sequence of the call, the queue of the bus when it started. *)

StepFrame ==
    UNCHANGED <<buildVars, decodeVars, wireVars, memVars, doneVars, lockVars,
                parVars, zlibVars, phaseVars, steerVars>>

\* The parser's locals and the engine's state during the call followed.
RunParser ==
    [offset |-> run.offset, bus_id |-> run.bus_id, ucIcAddr |-> run.ucIcAddr,
     reg_idx |-> run.reg_idx, queues |-> byte_queues, log |-> hwLog, pushed |-> pushed,
     stop |-> run.stop]

\* The condition of the while loop of line 280, the break of line 391 counted.
LoopGoesOn == ~run.stop /\ run.offset + 1 <= Len(run.data)

\* The bytes the commands of `entries` queued on bus b.
RECURSIVE BytesQueuedOn(_, _)
BytesQueuedOn(entries, b) ==
    IF entries = <<>> THEN <<>>
    ELSE (IF Head(entries).bus = b THEN Head(entries).bytes ELSE <<>>)
         \o BytesQueuedOn(Tail(entries), b)

\* The bytes the accesses of `log` wrote to the FIFO data register of bus b.
RECURSIVE BytesWrittenTo(_, _)
BytesWrittenTo(log, b) ==
    IF log = <<>> THEN <<>>
    ELSE (IF Head(log).op = "w" /\ Head(log).addr = FIFO_ADDR + b * BUS_STRIDE + 16
          THEN Head(log).val ELSE <<>>)
         \o BytesWrittenTo(Tail(log), b)

\* The bus-close sequences among the accesses `log` of one pass: the queue
\* `q` of bus `bus` when the write to the register at +0x14 was made.
ClosingsOf(log, bus, q) ==
    IF \E i \in 1..Len(log) : log[i].op = "w"
                              /\ log[i].addr = FIFO_ADDR + bus * BUS_STRIDE + 20
    THEN <<[bus |-> bus, queue |-> q]>>
    ELSE <<>>

\* Entry into parse_binary_commands (lines 264-277).
StepBegin(data, oob) ==
    /\ run.pc = "idle"
    /\ run.calls < MaxStepCalls
    /\ \E ps \in {ParserAtEntry(Engine(byte_queues, count))} :
         /\ run' = [pc |-> "loop", data |-> data, oob |-> oob, calls |-> run.calls + 1,
                    closing |-> <<>>, offset |-> ps.offset, bus_id |-> ps.bus_id,
                    ucIcAddr |-> ps.ucIcAddr, reg_idx |-> ps.reg_idx, stop |-> ps.stop]
         /\ hwLog' = ps.log
         /\ pushed' = ps.pushed
    /\ engCall' = [op |-> "parse_binary_commands", arg |-> data]
    /\ engResult' = NoResult
    /\ UNCHANGED <<byte_queues, count, appended, written>>
    /\ StepFrame

\* One pass of the while loop: one value processed (lines 280-408).
StepValue ==
    /\ run.pc = "loop"
    /\ LoopGoesOn
    /\ \E ps \in {ParseStep(run.data, RunParser, run.oob)} :
         /\ run' = [run EXCEPT !.offset = ps.offset, !.bus_id = ps.bus_id,
                               !.ucIcAddr = ps.ucIcAddr, !.reg_idx = ps.reg_idx,
                               !.stop = ps.stop,
                               !.closing = @ \o ClosingsOf(
                                   SubSeq(ps.log, Len(hwLog) + 1, Len(ps.log)),
                                   run.bus_id, ps.queues[run.bus_id])]
         /\ byte_queues' = ps.queues
         /\ hwLog' = ps.log
         /\ pushed' = ps.pushed
         /\ appended' = [b \in Buses |-> appended[b] \o
                           BytesQueuedOn(SubSeq(ps.pushed, Len(pushed) + 1, Len(ps.pushed)), b)]
         /\ written' = [b \in Buses |-> written[b] \o
                           BytesWrittenTo(SubSeq(ps.log, Len(hwLog) + 1, Len(ps.log)), b)]
    /\ UNCHANGED <<count, engCall, engResult>>
    /\ StepFrame

\* The loop has ended: the call returns (line 411).
StepReturn ==
    /\ run.pc = "loop"
    /\ ~LoopGoesOn
    /\ run' = [run EXCEPT !.pc = "idle"]
    /\ engResult' = [status |-> "ok", message |-> Msg001, responses |-> <<>>]
    /\ UNCHANGED <<byte_queues, count, hwLog, pushed, engCall, appended, written>>
    /\ StepFrame

NextStep ==
    \/ /\ run.pc = "idle"
       /\ run.calls = 0
       /\ StepBegin(WholeStream, 0)
    \/ /\ run.pc = "idle"
       /\ \E data \in StepInputs, oob \in OOBBytes : StepBegin(data, oob)
    \/ StepValue
    \/ StepReturn

SpecStep == InitEngine /\ [][NextStep]_vars


(* One steering request of ConsoleRunner's Run, followed entry by entry. *)

\* Lines 843-844: the array is 32 by 32 elements.
ROWS == 32

COLS == 32

\* Lines 859-868: the register of an element by its row, for even and for
\* odd columns, of the transmit and of the receive panel.
ChannelPattern(is_tx, col) ==
    IF is_tx = 1
    THEN IF col % 2 = 0 THEN <<39, 63, 71, 95>> ELSE <<95, 71, 63, 39>>
    ELSE IF col % 2 = 0 THEN <<34, 58, 66, 90>> ELSE <<90, 66, 58, 34>>

\* Lines 871-895: the entry of the element at (row, col).
ElementAt(row, col, is_tx) ==
    [spi_id |-> 7 - (col \div 4),
     chip_id |-> IF col % 4 < 2 THEN 16 + (row \div 2) ELSE row \div 2,
     channel_id |-> ChannelPattern(is_tx, col)[(row % 4) + 1],
     poles |-> IF row % 2 = 0
               THEN IF col % 2 = 0 THEN 120 ELSE 30
               ELSE IF col % 2 = 0 THEN 210 ELSE 300]

\* The comparison of lines 955-958: the order of (spi_id, chip_id, channel_id).
KeyBelow(a, b) ==
    \/ a.spi_id < b.spi_id
    \/ a.spi_id = b.spi_id /\ a.chip_id < b.chip_id
    \/ a.spi_id = b.spi_id /\ a.chip_id = b.chip_id /\ a.channel_id < b.channel_id

\* std::sort of lines 955-958.  No two elements share a key, so the sorted
\* order is one order: 128 entries a bus, four a chip, the registers
\* ascending.  The element standing at place k of it, k from 0:
RowAt(k) ==
    IF ((k \div 4) % 2 = 0) = (k % 4 \in {0, 3})
    THEN 2 * ((k \div 4) % 16)
    ELSE 2 * ((k \div 4) % 16) + 1

ColAt(k) ==
    4 * (7 - (k \div 128)) + (IF (k \div 4) % 32 < 16 THEN 2 ELSE 0)
      + (IF ((k \div 4) % 2 = 0) = (k % 4 \in {0, 1}) THEN 0 ELSE 1)

SortedEntry(k, is_tx) == ElementAt(RowAt(k), ColAt(k), is_tx)

\* That order holds every element once and is the order of KeyBelow.
EntriesSorted ==
    /\ {<<RowAt(k), ColAt(k)>> : k \in 0..(ROWS * COLS - 1)}
         = (0..(ROWS - 1)) \X (0..(COLS - 1))
    /\ \A is_tx \in {0, 1} : \A k \in 0..(ROWS * COLS - 2) :
          KeyBelow(SortedEntry(k, is_tx), SortedEntry(k + 1, is_tx))

\* Lines 990-1008 for an entry of a request whose azimuth or elevation was
\* entered as nan: phase() returns 0 for every element, and the final phase
\* of lines 941-951 is that of the poles alone.
EntryValue(e, is_tx) == DeviceValue(is_tx, IntPhase(FinalPhase(0, e.poles)))

\* Lines 1019-1023: the five bytes queued for an entry.
EntryCommand(e, is_tx) ==
    <<40, e.chip_id, e.channel_id, (EntryValue(e, is_tx) \div 256) % 256,
      EntryValue(e, is_tx) % 256>>

\* Lines 225-270, the lambda change_bus_process(spi_id): the close sequence
\* on the registers at the captured base_address, whichever bus that is;
\* then, unless spi_id is 7, base_address moves to bus spi_id and that bus
\* is opened.
change_bus_process(spi_id, base_address, log) ==
    IF spi_id = 7
    THEN [base_address |-> base_address, log |-> CloseBus(base_address, log)]
    ELSE [base_address |-> FIFO_ADDR + spi_id * BUS_STRIDE,
          log |-> Append(CloseBus(base_address, log),
                         WriteAccess(FIFO_ADDR + spi_id * BUS_STRIDE + 44, U32(2)))]

\* Lines 1040-1045 after the drain of an entry of bus spi_id.
ChangeBusIfNew(prev_bus_id, spi_id, base_address, log) ==
    IF prev_bus_id # spi_id
    THEN change_bus_process(spi_id, base_address, log)
    ELSE [base_address |-> base_address, log |-> log]

SteerFrame ==
    UNCHANGED <<buildVars, decodeVars, wireVars, engineVars, memVars, doneVars, lockVars,
                parVars, zlibVars, phaseVars, stepVars>>

\* Lines 832-953: "[sch] start", bus 0 opened at 0x43c4002c, the entries
\* built and their phases computed, prev_bus_id = 0.  The map byte_queues of
\* line 219 and the captured base_address outlive the request.
SteerBegin(is_tx, az_nan, el_nan) ==
    /\ steer.pc \in {"idle", "sent"}
    /\ az_nan \/ el_nan
    /\ steer' = [steer EXCEPT !.pc = "walk", !.is_tx = is_tx, !.az_nan = az_nan,
                              !.el_nan = el_nan, !.k = 0, !.prev_bus_id = 0,
                              !.log = <<WriteAccess(FIFO_ADDR + 44, U32(2))>>]
    /\ SteerFrame

\* The body of the loop of line 973 for `entry`, the next entry of the sorted
\* order: base_address set to the entry's bus, its command queued, the queue
\* drained, and then the bus change of lines 1040-1045.
SteerWalk(entry, drained) ==
    /\ steer' = [steer EXCEPT
          !.k = @ + 1,
          !.prev_bus_id = entry.spi_id,
          !.queues = [@ EXCEPT ![entry.spi_id] = drained.q],
          !.base_address =
              ChangeBusIfNew(steer.prev_bus_id, entry.spi_id,
                             FIFO_ADDR + entry.spi_id * BUS_STRIDE,
                             drained.log).base_address,
          !.log =
              ChangeBusIfNew(steer.prev_bus_id, entry.spi_id,
                             FIFO_ADDR + entry.spi_id * BUS_STRIDE, drained.log).log]
    /\ SteerFrame

SteerEntry ==
    /\ steer.pc = "walk"
    /\ steer.k < ROWS * COLS
    /\ \E entry \in {SortedEntry(steer.k, steer.is_tx)} :
          \E drained \in {DrainQueue(steer.queues[entry.spi_id]
                                       \o EntryCommand(entry, steer.is_tx),
                                     FIFO_ADDR + entry.spi_id * BUS_STRIDE, steer.log)} :
             SteerWalk(entry, drained)

\* Line 1058: change_bus_process(prev_bus_id) after the last entry.
SteerClose ==
    /\ steer.pc = "walk"
    /\ steer.k = ROWS * COLS
    /\ steer' = [steer EXCEPT
          !.pc = "closed",
          !.base_address =
              change_bus_process(steer.prev_bus_id, steer.base_address,
                                 steer.log).base_address,
          !.log = change_bus_process(steer.prev_bus_id, steer.base_address,
                                     steer.log).log]
    /\ SteerFrame

\* Lines 1061-1142: the length, the register at 0x43c0001c and the send
\* command written, the send status polled until it reads 0 or the read
\* fails (`polls` reads), and the remaining size of the eight FIFOs read.
SteerSend(polls) ==
    /\ steer.pc = "closed"
    /\ steer' = [steer EXCEPT
          !.pc = "sent",
          !.log = @ \o <<WriteAccess(BASE_ADDR + 24, U32(5)),
                         WriteAccess(BASE_ADDR + 28, U32(1)),
                         WriteAccess(BASE_ADDR + 20, U32(255))>>
                    \o [i \in 1..polls |-> ReadAccess(BASE_ADDR + 20)]
                    \o [i \in 1..8 |-> ReadAccess(FIFO_ADDR + (i - 1) * BUS_STRIDE + 12)]]
    /\ SteerFrame

NextSteer ==
    \/ /\ steer.pc \in {"idle", "sent"}
       /\ \E is_tx \in {0, 1}, az_nan, el_nan \in BOOLEAN :
             SteerBegin(is_tx, az_nan, el_nan)
    \/ SteerEntry
    \/ SteerClose
    \/ \E polls \in 1..MaxPolls : SteerSend(polls)

SpecSteer == InitEngine /\ [][NextSteer]_vars

---------------------------------------------------------------------------
(* The wire format, read from the bytes alone *)

\* The k-th 32-bit field (from 0) of the header at offset off, most
\* significant byte first.
WireField(bytes, off, k) == SubSeq(bytes, off + 4 * k + 1, off + 4 * k + 4)

WireHead(bytes, off) ==
    [start          |-> WireField(bytes, off, 0),
     sequence       |-> WireField(bytes, off, 1),
     message_type   |-> WireField(bytes, off, 2),
     message_length |-> WireField(bytes, off, 3)]

\* TRUE if the header at off declares more payload than the bytes after it.
DeclaresTooMuch(bytes, off) ==
    \/ WireField(bytes, off, 3)[1] # 0
    \/ Low24(WireField(bytes, off, 3)) > Len(bytes) - off - HEADER_SIZE

\* The frames a byte run is made of; whole is FALSE if it ends inside one.
RECURSIVE WireFrames(_, _, _)
WireFrames(bytes, off, acc) ==
    IF off >= Len(bytes) THEN [whole |-> TRUE, frames |-> acc]
    ELSE IF Len(bytes) - off < HEADER_SIZE \/ DeclaresTooMuch(bytes, off)
    THEN [whole |-> FALSE, frames |-> acc]
    ELSE WireFrames(bytes, off + HEADER_SIZE + Low24(WireField(bytes, off, 3)),
                    Append(acc, [head    |-> WireHead(bytes, off),
                                 message |-> SubSeq(bytes, off + HEADER_SIZE + 1,
                                                    off + HEADER_SIZE
                                                        + Low24(WireField(bytes, off, 3)))]))

RunFrames(bytes) == WireFrames(bytes, 0, <<>>)

\* The bytes a sequence of frames takes.
RECURSIVE FramesLength(_)
FramesLength(frames) ==
    IF frames = <<>> THEN 0
    ELSE HEADER_SIZE + Len(Head(frames).message) + FramesLength(Tail(frames))

HasMagic(f) == f.head.start = MSG_STRAT_CODE

IsLinesFrame(f) == f.head.message_type = MSG_LINES

\* A byte run that is one or more well-formed frames, all with the magic.
IsMagicRun(bytes) ==
    /\ RunFrames(bytes).whole
    /\ RunFrames(bytes).frames # <<>>
    /\ \A i \in 1..Len(RunFrames(bytes).frames) : HasMagic(RunFrames(bytes).frames[i])

\* The hooks a run of frames is due, in order: the pre-message hook for each
\* frame with the magic, then the LINES handler if it is a LINES frame.
RECURSIVE ExpectedEvents(_)
ExpectedEvents(frames) ==
    IF frames = <<>> THEN <<>>
    ELSE (IF ~HasMagic(Head(frames)) THEN <<>>
          ELSE IF IsLinesFrame(Head(frames))
          THEN <<[hook |-> "pre", head |-> Head(frames).head],
                 [hook |-> "msg", head |-> Head(frames).head]>>
          ELSE <<[hook |-> "pre", head |-> Head(frames).head]>>)
         \o ExpectedEvents(Tail(frames))

IsLinesBuffer(buf) == WireField(buf, 0, 2) = MSG_LINES

NotLinesBuffer(buf) == ~IsLinesBuffer(buf)

\* The bytes of an ACK frame for a sequence field.
AckBuffer(sequence) == MSG_STRAT_CODE \o sequence \o MSG_ACK \o U32(0)

\* The ACK frames a sequence of hooks is due, in order.
RECURSIVE ExpectedAcks(_)
ExpectedAcks(evs) ==
    IF evs = <<>> THEN <<>>
    ELSE (IF Head(evs).hook = "pre" /\ Head(evs).head.message_type # MSG_ACK
          THEN <<AckBuffer(Head(evs).head.sequence)>>
          ELSE <<>>)
         \o ExpectedAcks(Tail(evs))

\* What a second handler, fresh, sends when it receives buf.
PeerAnswer(buf) ==
    OnReceiveLoop(buf, Len(buf), Handler(0, <<>>, EmptyQueues, 0), DefaultEnv,
                  hostLE, sizeBits).sent

IsPrefix(s, t) == Len(s) <= Len(t) /\ s = SubSeq(t, 1, Len(s))

EndsWithPrompt(buf) ==
    /\ Len(buf) >= HEADER_SIZE + Len(TxtPrompt) + 1
    /\ SubSeq(buf, Len(buf) - Len(TxtPrompt), Len(buf)) = TxtPrompt \o <<0>>

---------------------------------------------------------------------------
(* Properties *)

\* C1: DecodeFrame on a buffer of 16 bytes or more fails with the
\* malformed-frame error whenever the declared message_length is greater than
\* len - 16, and otherwise returns a Frame whose payload is exactly the
\* message_length bytes after the header.
C1_LengthCheckedExactPayload ==
    (dfOut.status # "idle" /\ Len(dfIn) >= HEADER_SIZE) =>
        IF DeclaresTooMuch(dfIn, 0)
        THEN dfOut.status = "short"
        ELSE /\ dfOut.status = "ok"
             /\ dfOut.frame.message =
                    SubSeq(dfIn, HEADER_SIZE + 1,
                           HEADER_SIZE + Low24(WireField(dfIn, 0, 3)))

\* C1: a build with a 32-bit size_t where a declared length of 2^32 - 16 or
\* more passed the length check.
C1_LengthCheckWrapped ==
    /\ sizeBits = 32
    /\ Len(dfIn) >= HEADER_SIZE
    /\ DeclaresTooMuch(dfIn, 0)
    /\ dfOut.status \in UBOutcomes

\* C2: when fewer than 16 bytes are left where a frame starts, OnReceive ends
\* with DecodeFrame's "not ready" error and those bytes yield nothing: none
\* of them is consumed, no hook runs and no buffer is sent for them, and of a
\* run shorter than 16 bytes nothing at all comes.
C2_ShortBufferNotReady ==
    (rxCalls > 0 /\ ~RunFrames(rxPacket).whole
        /\ Len(rxPacket) - FramesLength(RunFrames(rxPacket).frames) < HEADER_SIZE) =>
        /\ rxOutcome = "throw_not_ready"
        /\ processed = FramesLength(RunFrames(rxPacket).frames)
        /\ events = ExpectedEvents(RunFrames(rxPacket).frames)
        /\ Len(sent) <= 2 * Len(RunFrames(rxPacket).frames)
        /\ Len(rxPacket) < HEADER_SIZE =>
              (processed = 0 /\ sent = <<>> /\ events = <<>> /\ hwLog = <<>>)
        /\ Len(rxPacket) - processed >= 8 =>
              \A i \in 1..Len(sent) :
                  WireField(sent[i], 0, 1) # WireField(rxPacket, processed, 1)

\* C2: a run of one whole ACK frame and the first 8 bytes of another frame.
C2_ShortTailReached ==
    /\ rxCalls > 0
    /\ processed = HEADER_SIZE
    /\ Len(rxPacket) = HEADER_SIZE + 8
    /\ rxOutcome = "throw_not_ready"
    /\ Len(events) = 1

\* C3: for every well-formed frame byte sequence B, Frame::DeepCopy of the
\* Frame returned by DecodeFrame(B) is exactly B.
C3_RoundTripDeepCopy ==
    (dfCopy.raw # <<>> /\ Len(dfIn) = HEADER_SIZE + Low24(WireField(dfIn, 0, 3))) =>
        dfCopy.raw = dfIn

\* C3: for every well-formed frame byte sequence B, Frame::DeepCopy of the
\* Frame returned by DecodeFrame(B), with its header put through
\* Header::ToNetwork first, is exactly B; DeepCopy of the Frame as returned is
\* B on a big-endian host.
C3_RoundTripToNetwork ==
    (dfCopy.raw # <<>> /\ Len(dfIn) = HEADER_SIZE + Low24(WireField(dfIn, 0, 3))) =>
        /\ dfCopy.net = dfIn
        /\ ~hostLE => dfCopy.raw = dfIn

\* C3: a frame with a payload decoded and serialized again on a
\* little-endian host.
C3_RoundTripReached ==
    /\ hostLE
    /\ Len(dfIn) > HEADER_SIZE
    /\ dfCopy.net = dfIn
    /\ dfCopy.raw # dfIn
    /\ dfCopy.raw # <<>>

\* C4: of a byte run that is k well-formed frames with the magic, OnReceive
\* processes each frame once and in order (pre-message hook, then the LINES
\* handler for a LINES frame) and consumes the whole run.
C4_EveryFrameProcessed ==
    (rxCalls > 0 /\ IsMagicRun(rxPacket)) =>
        /\ rxOutcome = "returned"
        /\ processed = Len(rxPacket)
        /\ events = ExpectedEvents(RunFrames(rxPacket).frames)

\* C4: a run of two LINES frames of which the second was never reached.
C4_LaterFrameLost ==
    /\ rxPacket = LongFrame(1, LongReplyLines) \o LinesX(2)
    /\ rxOutcome = "throw_handler"
    /\ processed < Len(rxPacket)
    /\ Len(events) = 2

\* C5: for every frame the pre-message hook gets, exactly one ACK frame
\* (magic, type ACK, length 0, the received sequence) is sent if the frame is
\* no ACK and nothing if it is one; a second handler that receives such an
\* ACK sends nothing back.
C5_OneAckUnlessAck ==
    rxCalls > 0 =>
        /\ SelectSeq(sent, NotLinesBuffer) = ExpectedAcks(events)
        /\ \A i \in 1..Len(sent) :
              NotLinesBuffer(sent[i]) => PeerAnswer(sent[i]) = <<>>

\* C5: a call that received an ACK frame and a frame that is none.
C5_AckAndOtherReceived ==
    /\ rxCalls > 0
    /\ Len(ExpectedAcks(events)) = 1
    /\ \E i \in 1..Len(events) :
          events[i].hook = "pre" /\ events[i].head.message_type = MSG_ACK
    /\ \E i \in 1..Len(sent) : sent[i] = AckBuffer(SeqAt(1))

C7_IncompleteFrameAwaited ==
    rxCalls > 0 =>
        /\ rxOutcome \notin {"throw_not_ready", "throw_short"}
        /\ (rxLeft # <<>> /\ IsMagicRun(rxLeft \o rxPacket)) =>
              events = ExpectedEvents(RunFrames(rxLeft \o rxPacket).frames)

\* C7: the two halves of one LINES frame received in two calls, and no hook
\* run.
C7_CompletionLost ==
    /\ rxLeft = SubSeq(LinesX(1), 1, 8)
    /\ rxPacket = SubSeq(LinesX(1), 9, Len(LinesX(1)))
    /\ rxOutcome = "throw_not_ready"
    /\ events = <<>>
    /\ sent = <<>>

\* C8: the sequence fields of the LINES frames a handler sent are 0, 1, 2, ...
\* in send order whatever was received in between, and the counter is the
\* number of LINES frames sent: an ACK does not use it.
C8_SequenceCounter ==
    /\ sentLines = [i \in 1..Len(sentLines) |-> i - 1]
    /\ sequence_ = Len(sentLines)
    /\ Len(SelectSeq(sent, IsLinesBuffer)) <= Len(sentLines)
    /\ \A i \in 1..Len(SelectSeq(sent, IsLinesBuffer)) :
          WireField(SelectSeq(sent, IsLinesBuffer)[i], 0, 1) =
              U32(Len(sentLines) - Len(SelectSeq(sent, IsLinesBuffer)) + i - 1)

\* C8: four or more LINES frames sent over two calls, with ACKs among them.
C8_SeveralLinesSent ==
    /\ rxCalls = 2
    /\ Len(sentLines) >= 4
    /\ \E i \in 1..Len(sent) : NotLinesBuffer(sent[i])
    /\ \E i \in 1..Len(events) :
          events[i].hook = "pre" /\ events[i].head.message_type = MSG_ACK

\* C9: for every valid LINES frame received, whatever its payload, no
\* exception leaves OnReceive and exactly one LINES frame ending in the
\* prompt is sent back.
C9_OneReplyPerLinesFrame ==
    (rxCalls > 0 /\ IsMagicRun(rxPacket)) =>
        /\ rxOutcome = "returned"
        /\ Len(SelectSeq(sent, IsLinesBuffer)) =
              Len(SelectSeq(RunFrames(rxPacket).frames, IsLinesFrame))
        /\ \A i \in 1..Len(sent) : IsLinesBuffer(sent[i]) => EndsWithPrompt(sent[i])

\* C9: a LINES frame whose reply has MAX_LINES_LEN characters or more, and
\* no reply sent.
C9_ReplyTooLong ==
    /\ rxPacket = LongFrame(1, LongReplyLines)
    /\ rxOutcome = "throw_handler"
    /\ SelectSeq(sent, IsLinesBuffer) = <<>>
    /\ Len(events) = 2

\* C10: of a buffer of 2n bytes parse_binary_commands makes exactly n device
\* commands, the i-th (from 0) with bytes 2i and 2i+1 of the buffer as its
\* value.
C10_EveryPairIsACommand ==
    (engCall.op = "parse_binary_commands" /\ Len(engCall.arg) % 2 = 0) =>
        /\ Len(pushed) = Len(engCall.arg) \div 2
        /\ \A i \in 0..(Len(pushed) - 1) :
              2 * i + 2 <= Len(engCall.arg) =>
                  /\ pushed[i + 1].bytes[4] = engCall.arg[2 * i + 1]
                  /\ pushed[i + 1].bytes[5] = engCall.arg[2 * i + 2]

\* C10: a buffer of four bytes that made one command, of the fourth byte and
\* the byte after the buffer.
C10_FirstBytesSkipped ==
    /\ engCall.op = "parse_binary_commands"
    /\ Len(engCall.arg) = 4
    /\ Len(pushed) = 1
    /\ pushed[1].bytes[4] = engCall.arg[4]
    /\ pushed[1].bytes[5] \in OOBBytes

\* The register block of a bus, and what the last call did on a bus.
BusBase(b) == FIFO_ADDR + b * BUS_STRIDE

CommandsOn(b) == Cardinality({i \in 1..Len(pushed) : pushed[i].bus = b})

BusClosed(b) ==
    \E i \in 1..(Len(hwLog) - 3) : SubSeq(hwLog, i, i + 3) = CloseBus(BusBase(b), <<>>)

NoAccessPastBus7 == \A i \in 1..Len(hwLog) : hwLog[i].addr < BusBase(8)

\* C11: a stream of exactly 4 x 32 x 8 = 1024 phase values puts 128 commands
\* on each of the buses 0..7, the close sequence of every bus is issued, bus 7
\* included, and no register of a ninth bus is accessed.
C11_FullStreamFillsEightBuses ==
    (engCall.op = "parse_binary_commands" /\ Len(engCall.arg) = FullStream) =>
        /\ \A b \in Buses : CommandsOn(b) = CommandsPerBus /\ BusClosed(b)
        /\ NoAccessPastBus7

\* C11: a stream of exactly 1024 values was parsed; bus 7 holds one command
\* less than the others and was not closed.
C11_LastBusLeftOpen ==
    /\ engCall.op = "parse_binary_commands"
    /\ Len(engCall.arg) = FullStream
    /\ engResult.status = "ok"
    /\ \A b \in 0..6 : CommandsOn(b) = CommandsPerBus /\ BusClosed(b)
    /\ CommandsOn(7) = CommandsPerBus - 1
    /\ ~BusClosed(7)

\* C12: when the buffer holds more values than the eight buses take, the call
\* makes the commands of eight full buses and no more, the close sequence of
\* bus 7 is the last register access, no register above those of bus 7 is
\* accessed (no bus-open for a bus id above 7), and the call returns its
\* normal Result.
C12_StopsAfterBus7 ==
    (engCall.op = "parse_binary_commands" /\ Len(engCall.arg) >= FullStream + 2) =>
        /\ Len(pushed) = CommandsPerBus * Cardinality(Buses)
        /\ Len(hwLog) >= 4
        /\ SubSeq(hwLog, Len(hwLog) - 3, Len(hwLog)) = CloseBus(BusBase(7), <<>>)
        /\ NoAccessPastBus7
        /\ engResult = [status |-> "ok", message |-> Msg001, responses |-> <<>>]

\* C12: a buffer with bytes left over after the last command of bus 7.
C12_InputLeftOver ==
    /\ engCall.op = "parse_binary_commands"
    /\ Len(engCall.arg) = FullStream + MaxExtra
    /\ Len(pushed) = CommandsPerBus * Cardinality(Buses)
    /\ pushed[Len(pushed)].bus = 7
    /\ BusClosed(7)

\* C13: the text command start, in whatever state the engine is, makes
\* exactly one register access, the write of 0x2 to 0x43C4002C, leaves the
\* counter at zero and returns "stat init completed !!!" with no readbacks.
C13_StartWritesOnce ==
    (engCall.op = "Execute" /\ engCall.arg \in StartLines) =>
        /\ hwLog = <<WriteAccess(BusBase(0) + 44, U32(2))>>
        /\ count = 0
        /\ engResult = [status |-> "ok", message |-> MsgStartDone, responses |-> <<>>]

\* C13: start was executed on an engine whose queues hold bytes left by a
\* binary command.
C13_StartOnUsedEngine ==
    /\ engCall.op = "Execute"
    /\ engCall.arg \in StartLines
    /\ byte_queues[0] # <<>>
    /\ Len(hwLog) = 1

\* C16: a text line whose first token is neither start nor done returns
\* "what?" and makes no register read or write.
C16_OtherVerbTouchesNothing ==
    (engCall.op = "Execute" /\ engCall.arg \in OtherLines) =>
        /\ hwLog = <<>>
        /\ pushed = <<>>
        /\ engResult = [status |-> "ok", message |-> MsgWhat, responses |-> <<>>]

\* C16: a line whose verb only begins with start was answered "what?".
C16_NearVerbRefused ==
    /\ engCall.op = "Execute"
    /\ engCall.arg = TxtStart \o <<101, 100>>
    /\ engResult.message = MsgWhat
    /\ hwLog = <<>>

\* C17: writeMemory returns failure and makes no access for every address
\* that is not 4-byte aligned or not inside the window, whether the
\* MemoryWriter was initialized, never initialized, or failed to initialize.
C17_WriteRejectsBadAddress ==
    (/\ wrCall.op = "writeMemory"
     /\ ~(Aligned4(wrCall.addr) /\ InWindow(wr, wrCall.addr))) =>
        /\ wrResult.ret = FALSE
        /\ wrResult.access = "none"

\* C17: a write to an address that is not 4-byte aligned went through on a
\* MemoryWriter that was never initialized.
C17_UnalignedWriteDone ==
    /\ wrCall.op = "writeMemory"
    /\ wr = NewWriter(sizeBits)
    /\ ~Aligned4(wrCall.addr)
    /\ wrResult.ret = TRUE
    /\ wrResult.access = "page"

\* C18: readMemory makes its access only when the address is 4-byte aligned
\* and [addr, addr + 4) lies inside the mapped window; for every other
\* address, those near the top of the address space included, it returns
\* failure without an access.
C18_ReadOnlyInsideWindow ==
    (/\ wrCall.op = "readMemory"
     /\ ~(Aligned4(wrCall.addr) /\ wr.mapped_base = "mapped" /\ InWindow(wr, wrCall.addr))) =>
        /\ wrResult.ret = FALSE
        /\ wrResult.access = "none"

\* C18: a read at the last word of the address space passed the checks of
\* an initialized MemoryWriter whose window lies elsewhere.
C18_TopOfAddressSpaceRead ==
    /\ wrCall = [op |-> "readMemory", addr |-> WordNeg(4, sizeBits), size |-> <<>>]
    /\ wr.mapped_base = "mapped"
    /\ ~InWindow(wr, wrCall.addr)
    /\ wrResult.access = "wild"

\* The window covers the bytes [base_addr, base_addr + size), as integers.
WindowCovers(w, base_addr, size) ==
    /\ ~WordLess(base_addr, w.mapped_address)
    /\ ~WordLess(WideAdd(w.mapped_address, w.mapped_size), WideAdd(base_addr, size))

\* C19: after initialize(base, size) returned true the window is page-aligned
\* and covers [base, base + size), for every base and every size > 0; when
\* the mapping cannot be made initialize returns false.
C19_WindowCoversRequest ==
    (wrCall.op = "initialize" /\ wrResult.status = "ok") =>
        /\ wrResult.ret = (wr.mapped_base = "mapped")
        /\ wrResult.ret =>
              /\ PageOffset(wr.mapped_address) = 0
              /\ PageOffset(wr.mapped_size) = 0
              /\ WindowCovers(wr, wrCall.addr, wrCall.size)

\* C19: initialize returned true for a base in the middle of a page and the
\* window ends before the requested bytes do.
C19_WindowTooShort ==
    /\ wrCall.op = "initialize"
    /\ wrResult.ret = TRUE
    /\ PageOffset(wrCall.addr) = PAGE_SIZE \div 2
    /\ wrCall.size = Word(PAGE_SIZE, sizeBits)
    /\ wr.mapped_size = Word(PAGE_SIZE, sizeBits)
    /\ ~WindowCovers(wr, wrCall.addr, wrCall.size)

\* C14: done writes 0x43C00018, 0x43C0001C and 0x43C00014 in this order
\* before anything else, and leaves its poll loop for the eight
\* remaining-size reads and the return only after a poll of the send-status
\* register has read zero.
C14_TailOnlyAfterZeroPoll ==
    /\ donePc # "idle" => IsPrefix(DoneWritesLog, hwLog)
    /\ donePc \in {"tail", "returned"} => polled.ok /\ polled.value = U32(0)

\* C14: done returned "done complete" although its only poll failed, on an
\* engine whose window is not mapped.
C14_ReturnedWithoutZeroPoll ==
    /\ donePc = "returned"
    /\ wr.mapped_base # "mapped"
    /\ polled = [ok |-> FALSE, value |-> <<>>, n |-> 1]
    /\ engResult.message = MsgDoneComplete
    /\ Len(hwLog) = 12

\* C15: the busy-wait of done has no timeout.  It leaves the loop only on a
\* poll that read zero or failed, however many polls read non-zero; the only
\* Result it returns is "done complete"; and once the register reads zero a
\* done that is polling returns "done complete".
C15_WaitsWithoutTimeout ==
    /\ [](donePc \in {"tail", "returned"} => (~polled.ok \/ polled.value = U32(0)))
    /\ [](donePc = "returned" <=> engResult.status = "ok")
    /\ [](engResult.status = "ok" => engResult.message = MsgDoneComplete)
    /\ (donePc \in {"poll", "sleep", "tail"} /\ sendStatus = U32(0))
          ~> (donePc = "returned" /\ engResult.message = MsgDoneComplete)

\* C15: done returned after as many polls as are counted, the last of them
\* the first to read zero.
C15_ReturnedAfterLongWait ==
    /\ donePc = "returned"
    /\ polled = [ok |-> TRUE, value |-> U32(0), n |-> MaxPolls]
    /\ Len(hwLog) = 3 + MaxPolls + 8

\* The threads that stand between the barriers of an access.
BetweenBarriers == {t \in Threads : thr[t].pc \in {"access", "direct_access"}}

\* C20: the accesses made through one MemoryWriter are serialized: of two
\* concurrent callers of readMemory or writeMemory, the fallback path of a
\* MemoryWriter that is not initialized included, at most one is between its
\* barriers at any time.
C20_AccessesSerialized == Cardinality(BetweenBarriers) <= 1

\* C20: two threads are between the barriers of writeMemoryDirect at once,
\* and nobody holds the mutex.
C20_TwoDirectWrites ==
    /\ \A t \in Threads : thr[t].pc = "direct_access" /\ thr[t].op = "writeMemory"
    /\ write_mutex = 0

\* The words written to the FIFO data register of bus b, in write order.
FifoWords(log, b) ==
    LET IsData(a) == a.op = "w" /\ a.addr = BusBase(b) + 16
    IN  [k \in 1..Len(SelectSeq(log, IsData)) |-> SelectSeq(log, IsData)[k].val]

\* The register accesses of one parse_binary_commands call on a buffer, made
\* with no other call before or beside it.
AloneLog(data) == parse_binary_commands(data, Engine(EmptyQueues, 0), 0).log

\* C21: of two SpiwriteCommand instances that run parse_binary_commands on
\* different threads, each one that has returned wrote to every bus the same
\* sequence of FIFO data words as it writes when it runs alone.
C21_SameWordsAsAlone ==
    \A i \in Instances :
        inst[i].pc = "done" =>
            \A b \in Buses : FifoWords(inst[i].log, b) = FifoWords(AloneLog(inst[i].data), b)

\* C21: both instances have returned, and one of them wrote a word that holds
\* a byte the other one queued.
C21_WordsMixed ==
    /\ \A i \in Instances : inst[i].pc = "done"
    /\ \E i \in Instances :
         FifoWords(inst[i].log, 0) # FifoWords(AloneLog(inst[i].data), 0)

\* C23: decompress_zlib_verbose rejects a buffer with "Invalid zlib header",
\* without any call of inflate, when its first two bytes CMF, FLG have
\* (CMF * 256 + FLG) mod 31 # 0 or (CMF mod 16) # 8, and rejects no other
\* buffer of two bytes or more that way.
C23_HeaderValidated ==
    (zResult.status # "none" /\ Len(zCall) >= 2) =>
        /\ (zResult.status = "thrown" /\ zResult.what = WhatInvalidHeader)
               <=> ((zCall[1] * 256 + zCall[2]) % 31 # 0 \/ zCall[1] % 16 # 8)
        /\ (zResult.status = "thrown" /\ zResult.what = WhatInvalidHeader)
               => zResult.inflateCalls = 0

\* C23: a header with method 8 and a wrong check value (78 9D) was rejected.
C23_WrongCheckRejected ==
    /\ Len(zCall) >= 2 /\ zCall[1] = 120 /\ zCall[2] = 157
    /\ zResult.status = "thrown" /\ zResult.what = WhatInvalidHeader
    /\ zResult.inflateCalls = 0

\* A command line whose bytes after "BINARY:" Execute takes for a zlib
\* container (line 1202).
DetectedCompressed(raw_command) ==
    /\ Len(raw_command) > 7 /\ SubSeq(raw_command, 1, 7) = TxtBinaryPrefix
    /\ raw_command[8] = 120
    /\ (Len(raw_command) > 8 => (raw_command[9] \div 32) % 2 = 0)

\* zlib's answers z describe a stream that inflates to its end marker.
InflatesToEnd(z) ==
    /\ z.init = "Z_OK"
    /\ \E k \in 1..Len(z.chunks) :
         /\ z.chunks[k].ret = "Z_STREAM_END"
         /\ \A j \in 1..(k - 1) : z.chunks[j].ret = "Z_OK" /\ z.chunks[j].more

\* The container after "BINARY:" is malformed: no two header bytes, a method
\* other than 8, a wrong header check value, or a stream that does not
\* inflate to its end marker.
Malformed(raw_command, z) ==
    \/ Len(raw_command) < 9
    \/ raw_command[8] % 16 # 8
    \/ (raw_command[8] * 256 + raw_command[9]) % 31 # 0
    \/ ~InflatesToEnd(z)

FailureTexts == {MsgZlibShort, MsgZlibMethod, MsgZlibChecksum}

\* C22: an Execute of a binary command that is detected as compressed and is
\* malformed returns a Result whose text says what failed, has read and
\* written no register, has queued no command and leaves every byte queue as
\* it was.
C22_MalformedTouchesNothing ==
    [][(/\ engCall'.op = "Execute"
        /\ DetectedCompressed(engCall'.arg)
        /\ Malformed(engCall'.arg, engCall'.inflate))
       => (/\ engResult'.status = "ok"
           /\ \/ engResult'.message \in FailureTexts
              \/ IsPrefix(MsgDecompressionError, engResult'.message)
           /\ hwLog' = <<>>
           /\ pushed' = <<>>
           /\ byte_queues' = byte_queues)]_vars

\* C22: a container with a valid header whose stream stopped short of its end
\* marker was answered "Decompression error: Decompression incomplete: 0",
\* on an engine whose queue of bus 0 held a byte.
C22_IncompleteStreamRefused ==
    /\ engCall.op = "Execute"
    /\ DetectedCompressed(engCall.arg)
    /\ engResult.message = MsgDecompressionError \o WhatIncomplete \o <<48>>
    /\ byte_queues[0] # <<>>
    /\ hwLog = <<>>

\* C24: every address the command engine hands to wr.writeMemory or
\* wr.readMemory, in start, in done and in parse_binary_commands, is a
\* multiple of 4 and lies with its four bytes inside the window mapped at
\* construction, [0x43C00000, 0x43C00000 + 0xC0000).
C24_AddressesInsideWindow ==
    \A i \in 1..Len(hwLog) :
        /\ hwLog[i].addr % 4 = 0
        /\ BASE_ADDR <= hwLog[i].addr
        /\ hwLog[i].addr + 4 <= BASE_ADDR + WINDOW_SIZE

\* C24: one call reached the last register the engine uses, the remaining-size
\* register of bus 7 at 0x43CB000C, and opened bus 7 at 0x43CB002C.
C24_Bus7Reached ==
    /\ \E i \in 1..Len(hwLog) : hwLog[i] = ReadAccess(BusBase(7) + 12)
    /\ \E i \in 1..Len(hwLog) : hwLog[i] = WriteAccess(BusBase(7) + 44, U32(2))

ValidPointing == ~phaseIn.az_nan /\ ~phaseIn.el_nan /\ ~phaseIn.freq_zero

\* C25: phase returns a value p with 0 <= p < 360 when azimuth, elevation and
\* frequency are valid, and exactly 0 when azimuth or elevation is NaN or
\* the frequency is zero.
C25_PhaseInRange ==
    phaseOut.pc # "idle" =>
        IF ValidPointing
        THEN 0 <= phaseOut.calculated_phase /\ phaseOut.calculated_phase < Deg(360)
        ELSE phaseOut.calculated_phase = 0

\* C25: with valid pointing and a steering phase of -2^-20 degree phase
\* returned 360.
C25_PhaseIs360 ==
    /\ phaseOut.pc # "idle"
    /\ ValidPointing
    /\ phaseIn.steer = 0 - 1
    /\ phaseOut.calculated_phase = Deg(360)

\* round(p / 5.625) for an angle p >= 0: the nearest whole number of steps.
NearestStep(p) == (2 * p + PhaseStep) \div (2 * PhaseStep)

\* C26: the phase code in bits 10..15 of the device value is round(p / 5.625)
\* reduced to 6 bits, p being the element's final phase in [0, 360), in
\* transmit mode and in receive mode.
C26_CodeIsNearestStep ==
    phaseOut.pc = "packed" =>
        (phaseOut.value \div 1024) % 64 = NearestStep(phaseOut.final_phase) % 64

\* C26: a final phase of 123 degrees (3 + 120) was packed as code 21; the
\* nearest step is 22 (123.75 degrees).
C26_CodeTruncated ==
    /\ phaseOut.pc = "packed"
    /\ phaseOut.final_phase = Deg(123)
    /\ (phaseOut.value \div 1024) % 64 = 21
    /\ NearestStep(phaseOut.final_phase) = 22

\* C27: over any sequence of parse_binary_commands calls, whenever a bus-close
\* sequence starts for a bus, the byte queue of that bus is empty.
C27_QueueEmptyAtClose ==
    \A i \in 1..Len(run.closing) : run.closing[i].queue = <<>>

\* C27: the second call closed bus 0 while a byte was in its queue.
C27_ClosedWithLeftover ==
    /\ run.calls = 2
    /\ run.closing # <<>>
    /\ run.closing[1].bus = 0
    /\ Len(run.closing[1].queue) = 1

\* C28: after each value processed by parse_binary_commands, in any sequence
\* of calls, every per-bus byte queue holds between 0 and 3 bytes.
C28_AtMostThreeLeft ==
    \A b \in Buses : Len(byte_queues[b]) <= 3

\* C28: the first value of a second call was processed on a queue that held 3
\* bytes: 8 bytes, two words written, none left.
C28_TwoWordsDrained ==
    /\ run.pc = "loop"
    /\ run.calls = 2
    /\ Len(pushed) = 1
    /\ Len(hwLog) = 2
    /\ byte_queues[0] = <<>>
    /\ hwLog[1].addr = FIFO_ADDR + 16
    /\ hwLog[2].addr = FIFO_ADDR + 16

\* C29: for each bus, the words written to its FIFO data register, expanded
\* big-endian and concatenated in write order, are the bytes appended to its
\* queue in append order less the bytes still in the queue.
C29_WrittenIsAppendedLessHeld ==
    \A b \in Buses : written[b] \o byte_queues[b] = appended[b]

\* C29: in a second call words were written to bus 1 while bus 0 holds bytes
\* of both calls.
C29_TwoBusesWritten ==
    /\ run.calls = 2
    /\ written[1] # <<>>
    /\ byte_queues[0] # <<>>
    /\ byte_queues[1] # <<>>

\* The command of the k-th value of the call followed (k from 0).
CommandOfValue(k) ==
    [bus |-> k \div 128,
     bytes |-> <<40, (k \div 4) % 32, RegisterAddrs[(k % 4) + 1],
                 ByteAt(run.data, FirstOffset + 2 * k, run.oob),
                 ByteAt(run.data, FirstOffset + 2 * k + 1, run.oob)>>]

\* C30: within one call the k-th value processed (k from 0) queues on bus
\* k div 128 the bytes 0x28, chip address (k div 4) mod 32, register address
\* [0x27, 0x3F, 0x47, 0x5F][k mod 4], value high byte, value low byte; no
\* queued chip address exceeds 0x1F.
C30_KthCommand ==
    run.calls > 0 =>
        \A k \in 0..(Len(pushed) - 1) :
            /\ pushed[k + 1] = CommandOfValue(k)
            /\ pushed[k + 1].bytes[2] <= 31

\* C30: value 1023 of a call was queued on bus 7 for chip 0x1F, register 0x5F.
C30_LastCommandOfBus7 ==
    /\ Len(pushed) = 1024
    /\ pushed[1024].bus = 7
    /\ pushed[1024].bytes[2] = 31
    /\ pushed[1024].bytes[3] = 95

\* Where the last call made the access acc: its place in the log, 0 if it
\* did not make it.
PlaceOf(acc) ==
    IF \E i \in 1..Len(hwLog) : hwLog[i] = acc
    THEN CHOOSE i \in 1..Len(hwLog) : hwLog[i] = acc
    ELSE 0

\* The three accesses of the close sequence of bus b were made, the write of
\* the length/trigger register at place t, the clearing of the interrupt
\* status at place c and the read of the remaining FIFO size at place r, in
\* this order, after every FIFO data write to bus b and before every access
\* to a register of a later bus.
ClosedInOrder(b, t, c, r) ==
    /\ 0 < t /\ t < c /\ c < r
    /\ \A i \in 1..Len(hwLog) :
          /\ (hwLog[i].op = "w" /\ hwLog[i].addr = BusBase(b) + 16) => i < t
          /\ hwLog[i].addr >= BusBase(b + 1) => i > r

\* C31: when a bus became full (its 128th command was processed) the engine
\* made on that bus, in this order, a write to the length/trigger register
\* (+0x14), a write clearing the interrupt-status register (+0x00) and a read
\* of the remaining-FIFO-size register (+0x0C), all after the last FIFO data
\* write to the bus and before any access to the next bus.
C31_CloseSequenceInOrder ==
    engCall.op = "parse_binary_commands" =>
        \A b \in Buses :
            CommandsOn(b) = CommandsPerBus =>
                ClosedInOrder(b, PlaceOf(WriteAccess(BusBase(b) + 20, U32(640))),
                                 PlaceOf(WriteAccess(BusBase(b), <<255, 255, 255, 255>>)),
                                 PlaceOf(ReadAccess(BusBase(b) + 12)))

\* C31: bus 3 became full and commands went on to bus 4.
C31_Bus3FilledAndLeft ==
    /\ engCall.op = "parse_binary_commands"
    /\ CommandsOn(3) = CommandsPerBus
    /\ CommandsOn(4) > 0
    /\ PlaceOf(ReadAccess(BusBase(3) + 12)) > 0

\* The last call reached bus b: it queued a command on it or accessed one of
\* its registers.
BusReached(b) ==
    \/ CommandsOn(b) > 0
    \/ \E i \in 1..Len(hwLog) : hwLog[i].addr >= BusBase(b) /\ hwLog[i].addr < BusBase(b + 1)

\* The first command the last call queued on bus b.
FirstCommandOn(b) == pushed[CHOOSE i \in 1..Len(pushed) : pushed[i].bus = b]

\* The bus-open write of bus b, at place o, came after the read at place r
\* that ends the close sequence of bus b - 1 and before every FIFO data write
\* to bus b.
OpenedInOrder(b, o, r) ==
    /\ 0 < r /\ r < o
    /\ \A i \in 1..Len(hwLog) :
          (hwLog[i].op = "w" /\ hwLog[i].addr = BusBase(b) + 16) => i > o

\* C32: for each bus b in 1..7 reached during a parse_binary_commands call,
\* the bus-open write (0x2 to the control register at +0x2C of b) comes after
\* the close sequence of bus b - 1 and before the first FIFO data word
\* written to bus b in that call, and the chip and register cursors are both
\* 0 when the first command of bus b is built.
C32_OpenBetweenCloseAndData ==
    engCall.op = "parse_binary_commands" =>
        \A b \in 1..7 :
            BusReached(b) =>
                /\ OpenedInOrder(b, PlaceOf(WriteAccess(BusBase(b) + 44, U32(2))),
                                    PlaceOf(ReadAccess(BusBase(b - 1) + 12)))
                /\ CommandsOn(b) > 0 =>
                      /\ FirstCommandOn(b).bytes[2] = 0
                      /\ FirstCommandOn(b).bytes[3] = RegisterAddrs[1]

\* C32: bus 7 was opened and words were written to its FIFO.
C32_Bus7OpenedAndWritten ==
    /\ engCall.op = "parse_binary_commands"
    /\ PlaceOf(WriteAccess(BusBase(7) + 44, U32(2))) > 0
    /\ CommandsOn(7) > 1
    /\ \E i \in 1..Len(hwLog) : hwLog[i].op = "w" /\ hwLog[i].addr = BusBase(7) + 16

\* The bytes after the prefix of the binary command line executed last.
AfterPrefix == SubSeq(engCall.arg, Len(TxtBinaryPrefix) + 1, Len(engCall.arg))

BinaryLineExecuted ==
    /\ engCall.op = "Execute"
    /\ Len(engCall.arg) >= Len(TxtBinaryPrefix)
    /\ SubSeq(engCall.arg, 1, Len(TxtBinaryPrefix)) = TxtBinaryPrefix

\* The first byte after the prefix is 0x78 and bit 0x20 of the second (the
\* terminator, 0, when the line ends there) is clear.
MagicAndNoDictionary ==
    /\ Len(AfterPrefix) >= 1
    /\ AfterPrefix[1] = 120
    /\ (Len(AfterPrefix) >= 2 => (AfterPrefix[2] \div 32) % 2 = 0)

\* The two bytes after the prefix pass the header checks of Execute.
HeaderAccepted ==
    /\ Len(AfterPrefix) >= 2
    /\ AfterPrefix[1] % 16 = 8
    /\ (AfterPrefix[1] * 256 + AfterPrefix[2]) % 31 = 0

\* The decompression helper was given the bytes after the prefix.
HelperRun ==
    /\ engCall.calls # <<>>
    /\ engCall.calls[1] = [fn |-> "decompress_zlib_verbose", arg |-> AfterPrefix]

\* parse_binary_commands was given the bytes after the prefix, and the helper
\* nothing.
ParsedUnchanged ==
    engCall.calls = <<[fn |-> "parse_binary_commands", arg |-> AfterPrefix]>>

\* C33: the bytes after the BINARY: prefix are run through the decompression
\* helper if and only if the first byte is 0x78 and bit 0x20 of the second
\* byte is clear; in every other case they reach parse_binary_commands
\* unchanged.
C33_HelperIffMagic ==
    BinaryLineExecuted =>
        /\ HelperRun <=> MagicAndNoDictionary
        /\ ~MagicAndNoDictionary => ParsedUnchanged

\* C33, amended: the bytes after the prefix are run through the helper if and
\* only if the first byte is 0x78, bit 0x20 of the second is clear and the
\* two bytes pass the header checks of Execute (a second byte is there, and
\* the two bytes as a big-endian number are a multiple of 31); with the magic
\* and a header that fails the checks a failure text is returned and neither
\* the helper nor parse_binary_commands is called.  With no byte after the
\* prefix the answer is "No binary data found" and nothing is called; in
\* every other case the bytes reach parse_binary_commands unchanged.
C33_HelperIffMagicAndHeader ==
    BinaryLineExecuted =>
        /\ HelperRun <=> (MagicAndNoDictionary /\ HeaderAccepted)
        /\ (MagicAndNoDictionary /\ ~HeaderAccepted) =>
              /\ engCall.calls = <<>>
              /\ engResult.message \in {MsgZlibShort, MsgZlibMethod, MsgZlibChecksum}
        /\ AfterPrefix = <<>> =>
              /\ engCall.calls = <<>>
              /\ engResult.message = MsgNoBinary
        /\ (~MagicAndNoDictionary /\ AfterPrefix # <<>>) => ParsedUnchanged

\* C33: a container was inflated and what came out of it was parsed.
C33_InflatedThenParsed ==
    /\ BinaryLineExecuted
    /\ HelperRun
    /\ Len(engCall.calls) = 2
    /\ engCall.calls[2].fn = "parse_binary_commands"
    /\ engCall.calls[2].arg # AfterPrefix
    /\ pushed # <<>>

\* C34: parse_binary_commands only reads bytes inside its buffer: whatever the
\* length of the buffer, each 2-byte value it consumes lies entirely within
\* the buffer.
C34_ValueInsideBuffer ==
    (run.pc = "loop" /\ LoopGoesOn) => run.offset + 2 <= Len(run.data)

\* C34: the last value of a 6-byte buffer was made of the buffer's last byte
\* and of the byte, 0xFF, that lay behind the buffer.
C34_ByteBehindBufferRead ==
    /\ run.pc = "loop"
    /\ Len(run.data) = 6
    /\ run.oob = 255
    /\ run.offset = 7
    /\ Len(pushed) = 2
    /\ pushed[2].bytes[4] = run.data[6]
    /\ pushed[2].bytes[5] = 255

\* C35: a valid LINES frame with message_length 0 is handled as an empty
\* command text: the length handed on does not underflow, OnReceive returns
\* and a response frame is sent.
C35_EmptyLinesAnswered ==
    (rxCalls > 0 /\ rxPacket = EmptyLines(1)) =>
        /\ rxOutcome = "returned"
        /\ Len(SelectSeq(sent, IsLinesBuffer)) = 1

\* C35: a LINES frame with message_length 0 was acknowledged, its handler was
\* entered, an exception left OnReceive and no response frame was sent.
C35_EmptyLinesThrows ==
    /\ rxCalls > 0
    /\ rxPacket = EmptyLines(1)
    /\ rxOutcome = "throw_handler"
    /\ events = <<[hook |-> "pre", head |-> events[1].head],
                  [hook |-> "msg", head |-> events[1].head]>>
    /\ events[1].head.message_length = U32(0)
    /\ sent = <<AckBuffer(SeqAt(1))>>

\* C36: Execute on a text line that holds no token (empty, or made only of
\* spaces and '&') returns the unrecognized Result without touching hardware
\* and without reading an element of the empty token list.
C36_NoTokenRefused ==
    (engCall.op = "Execute" /\ Tokenize(engCall.arg) = <<>>) =>
        /\ engResult.status = "ok"
        /\ engResult.message = MsgWhat
        /\ hwLog = <<>>

\* C36: the line '& &' was executed: it holds no token, and the first element
\* of the empty token list was read.
C36_FirstTokenOfNoneRead ==
    /\ engCall.op = "Execute"
    /\ engCall.arg = <<38, 32, 38>>
    /\ Tokenize(engCall.arg) = <<>>
    /\ engResult.status = "ub"

\* initialize was called and failed: it left no mapping, and the size it had
\* rounded up.
InitializeFailed ==
    /\ wr.mem_fd = NO_FD
    /\ \/ wr.mapped_base = "MAP_FAILED"
       \/ wr.mapped_base = "nullptr" /\ wr.mapped_size # Word(0, sizeBits)

\* C37: after initialize failed (the device could not be opened or mapped)
\* readMemory returns failure for every address and never dereferences the
\* absent mapping, and writeMemory takes the one-shot fallback path.
C37_NotMappedAfterFailure ==
    InitializeFailed =>
        /\ wrCall.op = "readMemory" =>
              /\ wrResult.ret = FALSE
              /\ wrResult.access = "none"
        /\ wrCall.op = "writeMemory" => wrResult.access \in {"none", "page"}

\* C37: the device could not be opened; readMemory of address 0x14 passed the
\* range check and dereferenced the null mapping.
C37_NullMappingDereferenced ==
    /\ InitializeFailed
    /\ wr.mapped_base = "nullptr"
    /\ wrCall.op = "readMemory"
    /\ wrCall.addr = Word(20, sizeBits)
    /\ wrResult.access = "wild"

\* C38: where the size type is 32 bits wide DecodeFrame rejects every header
\* whose message_length exceeds len - 16, the values of 2^32 - 16 and above
\* included, for which header size + message_length wraps modulo 2^32; no
\* payload longer than the bytes present is copied.
C38_WrappingLengthRejected ==
    (sizeBits = 32 /\ dfOut.status # "idle" /\ Len(dfIn) >= HEADER_SIZE) =>
        /\ DeclaresTooMuch(dfIn, 0) => dfOut.status = "short"
        /\ dfOut.status = "ok" => Len(dfOut.frame.message) <= Len(dfIn) - HEADER_SIZE

\* C38: size_t is 32 bits wide and the header declares 2^32 - 16 bytes: the
\* sum wrapped to 0, the check passed and the copy of the payload ran outside
\* the buffer.
C38_SumWrappedToZero ==
    /\ sizeBits = 32
    /\ Len(dfIn) >= HEADER_SIZE
    /\ WireField(dfIn, 0, 3) = <<255, 255, 255, 240>>
    /\ HeaderPlusLength(WireField(dfIn, 0, 3), sizeBits) = [hi |-> 0, lo |-> 0]
    /\ dfOut.status \in UBOutcomes

---------------------------------------------------------------------------
(* The steering request *)

\* Places in the request's log of the first write of a close sequence on the
\* registers of bus b, and of the words written to the FIFO data register
\* of bus b.
SteerCloses(b) ==
    {i \in DOMAIN steer.log : steer.log[i] = WriteAccess(BusBase(b) + 20, U32(640))}

SteerWords(b) ==
    {i \in DOMAIN steer.log : steer.log[i].op = "w" /\ steer.log[i].addr = BusBase(b) + 16}

WordsBefore(b, i) == Cardinality({j \in SteerWords(b) : j < i})

\* C39: in a steering request the close sequence of each bus b is issued on
\* b's own registers after all 128 commands of b (640 bytes, 160 words) have
\* been written to b's FIFO and before any word is written to the FIFO of
\* bus b + 1, and once the walk is over every bus 0..7 has been closed
\* exactly once.
C39_EachBusClosedOnceAfterItsCommands ==
    \A b \in Buses :
       /\ Cardinality(SteerCloses(b)) <= 1
       /\ \A i \in SteerCloses(b) : WordsBefore(b, i) * 4 = 128 * 5
       /\ b < 7 => \A j \in SteerWords(b + 1) : \E i \in SteerCloses(b) : i < j
       /\ steer.pc \in {"closed", "sent"} => Cardinality(SteerCloses(b)) = 1

\* The walk is over: bus 0 was never closed, each of the buses 1..6 was
\* closed once, after the first word of its first command, and bus 7 twice,
\* after its first word and after its last.
C39_Bus0NeverClosedBus7Twice ==
    /\ steer.pc = "closed"
    /\ SteerCloses(0) = {}
    /\ \A b \in 1..6 : \E i \in SteerCloses(b) :
          SteerCloses(b) = {i} /\ WordsBefore(b, i) = 1
    /\ {WordsBefore(7, i) : i \in SteerCloses(7)} = {1, 160}
    /\ \A b \in Buses : Cardinality(SteerWords(b)) = 160

---------------------------------------------------------------------------
(* The loop of OnReceive *)

\* Outcomes of an OnReceive call in which the last pass of the loop failed: an
\* exception left the call, or the process died.
PassFailures == {"throw_not_ready", "throw_short", "throw_decode", "throw_handler", "crash"}

\* The value of `processed` when pass i of the last call was over.
PassEnd(i) == IF i < Len(rxPasses) THEN rxPasses[i + 1] ELSE processed

\* Every pass of the last call advanced `processed` by the header size or
\* more, or it is the last pass and failed; `processed` never exceeded the
\* length of the run, so the passes number no more than the headers that fit
\* in it; and a call that returned had consumed the whole run.
LoopAdvances ==
    /\ processed <= Len(rxPacket)
    /\ \A i \in 1..Len(rxPasses) :
          /\ rxPasses[i] < Len(rxPacket)
          /\ \/ PassEnd(i) >= rxPasses[i] + HEADER_SIZE
             \/ i = Len(rxPasses) /\ rxOutcome \in PassFailures
    /\ Len(rxPasses) * HEADER_SIZE < Len(rxPacket) + HEADER_SIZE
    /\ rxOutcome = "returned" => processed = Len(rxPacket)

\* C40 as stated: OnReceive always terminates on a finite byte run; every
\* pass of its loop fails or advances `processed` by 16 or more, and
\* `processed` never exceeds the length of the run.
C40_AlwaysTerminates ==
    rxCalls > 0 => LoopAdvances /\ rxOutcome \in PassFailures \cup {"returned"}

\* C40 amended: every pass of the loop of OnReceive fails or advances
\* `processed` by 16 or more and `processed` never exceeds the length of the
\* run, so the loop makes no more passes than headers fit in the run; the
\* call ends, returning or failing, unless the command executed by a hook
\* does not return.
C40_LoopTerminatesUnlessHookHangs ==
    rxCalls > 0 =>
       /\ LoopAdvances
       /\ rxOutcome \in PassFailures \cup {"returned", "hang"}
       /\ rxOutcome = "hang" => engResult.status = "hang"

\* A run of three frames was consumed in three passes, 16 bytes or more each,
\* and the call returned at the end of the run.
C40_ThreeFramesThreePasses ==
    /\ rxOutcome = "returned"
    /\ Len(rxPasses) = 3
    /\ rxPasses[1] = 0
    /\ rxPasses[2] = HEADER_SIZE
    /\ rxPasses[3] > 2 * HEADER_SIZE
    /\ processed = Len(rxPacket)


====
